---- MODULE Spec2Model ----
(***************************************************************************)
(* Audio Normalization & Extraction Engine of the toxicity-detection       *)
(* dashboard: frontend/src/services/audioService.ts (class AudioService).  *)
(*                                                                         *)
(*   Spec          the Device Capture Recorder (startRecording /           *)
(*                 stopRecording / cleanup) together with the PCM          *)
(*                 Normalizer it forwards to (convertTo16kHzMono)          *)
(*   SpecVideo     one Video Audio Extractor job (convertVideoToAudio)     *)
(*   SpecVideoFair SpecVideo with weak fairness on its timers              *)
(*   SpecNormalize one convertTo16kHzMono run by the numbers: the lengths  *)
(*                 and rates of its buffers and the header it ends with    *)
(*   SpecEncode    one call of an encoder (audioBufferToWav, and           *)
(*                 HomePage's encodeWAVToBlob), byte by byte               *)
(*   SpecClassify  one call of a Format & Type Resolver predicate          *)
(*                 (isVideoFile, isAudioFile) on a file                    *)
(*   SpecInput     the AudioInput component: drop, conversion, its own     *)
(*                 recorder, and what it hands to onAudioSelect            *)
(*   SpecNegotiate getBestAudioMimeType and getSupportedAudioFormats in    *)
(*                 any browser                                             *)
(*   SpecValidate  one validateAudioBlob probe and the media events of     *)
(*                 its Audio element; SpecValidateFair adds its timer      *)
(*   SpecQuery     Spec with getBrowserCapabilities callable at any time   *)
(*   SpecCapability getBrowserCapabilities in any browser, with or         *)
(*                 without MediaRecorder and AudioContext                  *)
(*   SpecPage      HomePage (selection, analysis) and its FeedbackForm     *)
(*   SpecFair      Spec with the browser's events made fair                *)
(*                                                                         *)
(* The browser is the environment: every event it may deliver (permission  *)
(* answer, dataavailable, stop, loadedmetadata, ended, error, timer, ...)  *)
(* is an action; every handler of the source is translated as one atomic   *)
(* step up to its next await.                                              *)
(***************************************************************************)
EXTENDS Integers, Sequences, FiniteSets, TLC

\* ------------------------------------------------------------------ bounds
MaxCalls == 3         \* startRecording and stopRecording calls the caller makes
MaxData == 1          \* non-empty chunks a recorder delivers on timeslice ticks
MaxMeta == 2          \* loadedmetadata events the video element fires
MaxChunks == 1        \* non-empty chunks the job's recorder delivers on ticks
MaxFrames == 6        \* frames of the short buffers decodeAudioData resolves with
MaxSamples == 2       \* frames of the buffers handed to an encoder
MaxEvents == 3        \* media events the Audio element of validateAudioBlob fires
MaxSelections == 2    \* handleAudioSelect calls that carry a file

\* --------------------------------------------------------------- constants
\* startRecording's catch block: the one error every start failure becomes
ErrStart == "Failed to start recording. Please check microphone permissions."
\* stopRecording without a recorder
ErrNoRecording == "No recording in progress"
\* MediaRecorder.stop() on an inactive recorder, on engines that throw
ErrInvalidState == "InvalidStateError"
\* fileReader.onerror in convertTo16kHzMono
ErrRead == "Failed to read audio file"
\* the fallback tag of stopRecording's onstop handler
DefaultMime == "audio/webm"
WavMime == "audio/wav"
None == "none"

\* the strict priority list of getBestAudioMimeType
types ==
  << "audio/webm;codecs=opus", "audio/webm;codecs=vorbis", "audio/webm",
     "audio/mp4;codecs=mp4a.40.2", "audio/mp4", "audio/ogg;codecs=opus",
     "audio/ogg;codecs=vorbis", "audio/wav" >>

\* Browsers the recorder runs in: what MediaRecorder.isTypeSupported accepts
\* and the type a recorder constructed without a mimeType option reports.
Envs ==
  { [supported |-> {"audio/webm;codecs=opus", "audio/webm", "audio/ogg;codecs=opus"},
     defaultMime |-> "audio/webm;codecs=opus"],
    [supported |-> {}, defaultMime |-> ""] }

\* the list of getSupportedAudioFormats
formats ==
  << "audio/webm;codecs=opus", "audio/webm;codecs=vorbis", "audio/webm",
     "audio/mp4;codecs=mp4a.40.2", "audio/mp4", "audio/ogg;codecs=opus",
     "audio/ogg;codecs=vorbis", "audio/wav" >>

\* Every browser as far as the two lists can tell: any set of their types,
\* with or without a type that is on neither list, passes isTypeSupported.
AnyEnvs ==
  { [supported |-> S, defaultMime |-> ""] :
      S \in SUBSET ({types[i] : i \in 1..Len(types)} \cup {"audio/x-matroska"}) }

\* ------------------------------------------------------------------- blobs
\* A Blob: its declared type, how its bytes are encoded ("codec": as the
\* recorder produced them, "pcm16k": the Encoder's RIFF/WAVE of the 16 kHz
\* mono rendering) and the chunks its bytes come from.
NoBlob == [type |-> "", enc |-> None, parts |-> <<>>]

MkBlob(parts, type) == [type |-> type, enc |-> "codec", parts |-> parts]

\* (an encoder whose Blob is built without a type)
audioBufferToWavUntyped(blob) == [type |-> "", enc |-> "pcm16k", parts |-> blob.parts]

\* audioBufferToWav(renderedBuffer, 16) of the decoded and rendered input
audioBufferToWav(blob) == [type |-> WavMime, enc |-> "pcm16k", parts |-> blob.parts]

\* ------------------------------------------------------------ the numbers
\* convertTo16kHzMono: targetSampleRate, targetChannels
targetSampleRate == 16000
targetChannels == 1
\* audioBufferToWav: the length of the header (bufferSize = 44 + dataSize)
HeaderSize == 44

\* A Float32 sample is carried as its numerator over SampleDen. The samples
\* of the model are -1.25, -1, -0.25, 0, 0.25, 1 and 1.25: some lie outside
\* [-1, 1], and a quarter times 32767 or 32768 tells rounding from dropping
\* the fraction.
SampleDen == 4
Samples == {-(SampleDen + 1), -SampleDen, -1, 0, 1, SampleDen, SampleDen + 1}

\* sample rates of decoded buffers (decodeAudioData resamples to the rate of
\* its AudioContext, the device's rate)
Rates == {8000, 16000, 44100, 48000}

\* decoded lengths in frames: the short ones, and 5 s at 44.1 kHz and 48 kHz
Lengths == (0..MaxFrames) \cup {220500, 240000}

\* the AudioBuffers decodeAudioData may resolve with (their samples left out)
AudioBuffers == [length : Lengths, sampleRate : Rates, numberOfChannels : {1, 2}]

NoBuffer == [length |-> 0, sampleRate |-> 0, numberOfChannels |-> 0]

RECURSIVE GCD(_, _)
GCD(a, b) == IF b = 0 THEN a ELSE GCD(b, a % b)

\* Math.ceil(a / b) for a >= 0 and b > 0
Ceil(a, b) == (a + b - 1) \div b

\* (a target length that rounds the frame count down)
targetLengthFloor(buffer) ==
  LET g == GCD(targetSampleRate, buffer.sampleRate)
  IN (buffer.length * (targetSampleRate \div g)) \div (buffer.sampleRate \div g)

\* Math.ceil(duration * targetSampleRate), duration = length / sampleRate
\* (the fraction targetSampleRate / sampleRate is reduced first)
targetLength(buffer) ==
  LET g == GCD(targetSampleRate, buffer.sampleRate)
  IN Ceil(buffer.length * (targetSampleRate \div g), buffer.sampleRate \div g)

\* writeString(offset, string): the char codes of "RIFF", "WAVE", "fmt ", "data"
RIFF == <<82, 73, 70, 70>>
WAVE == <<87, 65, 86, 69>>
FMT == <<102, 109, 116, 32>>
DATA == <<100, 97, 116, 97>>

\* the n low-order bytes of v >= 0, least significant first
RECURSIVE LittleEndian(_, _)
LittleEndian(v, n) ==
  IF n = 0 THEN <<>> ELSE <<v % 256>> \o LittleEndian(v \div 256, n - 1)

\* view.setUint32(offset, v, true); no v of the model reaches 2^31
setUint32(v) == LittleEndian(v, 4)
\* view.setUint16(offset, v, true)
setUint16(v) == LittleEndian(v % 65536, 2)

\* the integer a DataView setter makes of the number num / den: its
\* fraction is dropped (towards zero)
Trunc(num, den) == IF num >= 0 THEN num \div den ELSE -((-num) \div den)

\* view.setInt16(offset, num / den, true): modulo 2^16, in two's complement
setInt16(num, den) == LittleEndian(Trunc(num, den) % 65536, 2)
\* view.setUint8(offset, num / den): modulo 2^8
setUint8(num, den) == <<Trunc(num, den) % 256>>

\* Math.max(-1, Math.min(1, sample)) of the sample n / SampleDen, as a numerator
Clamp(n) == IF n > SampleDen THEN SampleDen ELSE IF n < -SampleDen THEN -SampleDen ELSE n

\* (a header whose RIFF size field holds the whole length of the buffer)
WavHeaderRiffTotal(length, numberOfChannels, sampleRate, bitDepth) ==
  LET bytesPerSample == bitDepth \div 8
      blockAlign == numberOfChannels * bytesPerSample
      byteRate == sampleRate * blockAlign
      dataSize == length * blockAlign
      bufferSize == HeaderSize + dataSize
  IN RIFF \o setUint32(bufferSize) \o WAVE \o FMT \o setUint32(16)
       \o setUint16(1) \o setUint16(numberOfChannels) \o setUint32(sampleRate)
       \o setUint32(byteRate) \o setUint16(blockAlign) \o setUint16(bitDepth)
       \o DATA \o setUint32(dataSize)

\* audioBufferToWav: the 44 bytes it writes before the samples
WavHeader(length, numberOfChannels, sampleRate, bitDepth) ==
  LET bytesPerSample == bitDepth \div 8
      blockAlign == numberOfChannels * bytesPerSample
      byteRate == sampleRate * blockAlign
      dataSize == length * blockAlign
      bufferSize == HeaderSize + dataSize
  IN RIFF \o setUint32(bufferSize - 8) \o WAVE \o FMT \o setUint32(16)
       \o setUint16(1) \o setUint16(numberOfChannels) \o setUint32(sampleRate)
       \o setUint32(byteRate) \o setUint16(blockAlign) \o setUint16(bitDepth)
       \o DATA \o setUint32(dataSize)

\* audioBufferToWav: bufferSize, the length of the ArrayBuffer it allocates
WavSize(length, numberOfChannels, bitDepth) ==
  HeaderSize + length * (numberOfChannels * (bitDepth \div 8))

\* audioBufferToWav: what one pass of the inner loop writes for the sample
\* n / SampleDen (maxValue = Math.pow(2, bitDepth - 1) - 1)
WriteSample(n, bitDepth) ==
  LET maxValue == 2^(bitDepth - 1) - 1
      intSample == Clamp(n) * maxValue
  IN IF bitDepth = 16 THEN setInt16(intSample, SampleDen)
     ELSE IF bitDepth = 8 THEN setUint8(intSample + 128 * SampleDen, SampleDen)
     ELSE <<>>

\* audioBufferToWav: the inner loop over the channels of frame i
RECURSIVE WriteChannels(_, _, _, _)
WriteChannels(buffer, bitDepth, i, channel) ==
  IF channel > buffer.numberOfChannels THEN <<>>
  ELSE WriteSample(buffer.channelData[channel][i], bitDepth)
         \o WriteChannels(buffer, bitDepth, i, channel + 1)

\* audioBufferToWav: the outer loop over the frames, from frame i on
RECURSIVE WriteFrames(_, _, _)
WriteFrames(buffer, bitDepth, i) ==
  IF i > buffer.length THEN <<>>
  ELSE WriteChannels(buffer, bitDepth, i, 1) \o WriteFrames(buffer, bitDepth, i + 1)

\* n zero bytes (an ArrayBuffer is allocated zero-filled)
Zeros(n) == [i \in 1..n |-> 0]

\* audioBufferToWav(buffer, bitDepth) in bytes: the header, the samples
\* written from offset 44 on, and whatever of the buffer was left untouched;
\* `offset` is the write offset after the loop
audioBufferToWavBytes(buffer, bitDepth) ==
  LET header == WavHeader(buffer.length, buffer.numberOfChannels, buffer.sampleRate, bitDepth)
      data == WriteFrames(buffer, bitDepth, 1)
      bufferSize == WavSize(buffer.length, buffer.numberOfChannels, bitDepth)
  IN [type |-> WavMime,
      bytes |-> header \o data \o Zeros(bufferSize - HeaderSize - Len(data)),
      offset |-> HeaderSize + Len(data)]

\* HomePage.encodeWAVToBlob: what one pass of its loop writes for the sample
\* n / SampleDen (volume = 1; 0x8000 for a negative sample, else 0x7fff)
WriteSampleToBlob(n) ==
  LET sample == Clamp(n)
  IN setInt16(IF sample < 0 THEN sample * 32768 ELSE sample * 32767, SampleDen)

RECURSIVE WriteSamplesToBlob(_, _)
WriteSamplesToBlob(samples, i) ==
  IF i > Len(samples) THEN <<>>
  ELSE WriteSampleToBlob(samples[i]) \o WriteSamplesToBlob(samples, i + 1)

\* HomePage.encodeWAVToBlob(samples, sampleRate) in bytes
encodeWAVToBlob(samples, sampleRate) ==
  LET header == RIFF \o setUint32(36 + Len(samples) * 2) \o WAVE \o FMT \o setUint32(16)
                  \o setUint16(1) \o setUint16(1) \o setUint32(sampleRate)
                  \o setUint32(sampleRate * 2) \o setUint16(2) \o setUint16(16)
                  \o DATA \o setUint32(Len(samples) * 2)
      data == WriteSamplesToBlob(samples, 1)
  IN [type |-> WavMime,
      bytes |-> header \o data,
      offset |-> HeaderSize + Len(data)]

\* the buffers handed to audioBufferToWav: up to MaxSamples frames of one or
\* two channels, every sample one of Samples
EncoderBuffers ==
  UNION { [length : {l}, numberOfChannels : {c}, sampleRate : {targetSampleRate, 44100},
           channelData : [1..c -> [1..l -> Samples]]] :
            l \in 0..MaxSamples, c \in {1, 2} }

\* the bit depths audioBufferToWav is given: the two it writes and one it does not
BitDepths == {8, 16, 24}

\* ------------------------------------------------ Capture Source Resolver
\* A file name is the sequence of its characters; a declared type
\* "base/sub" is the pair <<base, sub>>, and the empty type is <<"", "">>.
NoType == <<"", "">>

\* isVideoFile: videoTypes, and the alternatives of the regular expression
\* videoExtensions = /\.(mp4|avi|mov|mkv|webm|qt|3gp|wmv|flv|m4v)$/i
videoTypes ==
  { <<"video", "mp4">>, <<"video", "avi">>, <<"video", "mov">>,
    <<"video", "mkv">>, <<"video", "webm">>, <<"video", "quicktime">>,
    <<"video", "x-msvideo">>, <<"video", "3gpp">>, <<"video", "x-ms-wmv">>,
    <<"video", "x-flv">> }
videoExtensions ==
  { <<"m", "p", "4">>, <<"a", "v", "i">>, <<"m", "o", "v">>,
    <<"m", "k", "v">>, <<"w", "e", "b", "m">>, <<"q", "t">>,
    <<"3", "g", "p">>, <<"w", "m", "v">>, <<"f", "l", "v">>,
    <<"m", "4", "v">> }

\* isAudioFile: audioTypes, and the alternatives of the regular expression
\* audioExtensions = /\.(mp3|wav|m4a|ogg|flac|aac|wma|opus)$/i
audioTypes ==
  { <<"audio", "mp3">>, <<"audio", "wav">>, <<"audio", "m4a">>,
    <<"audio", "ogg">>, <<"audio", "flac">>, <<"audio", "mpeg">>,
    <<"audio", "webm">>, <<"audio", "aac">>, <<"audio", "x-wav">>,
    <<"audio", "vnd.wav">> }
audioExtensions ==
  { <<"m", "p", "3">>, <<"w", "a", "v">>, <<"m", "4", "a">>,
    <<"o", "g", "g">>, <<"f", "l", "a", "c">>, <<"a", "a", "c">>,
    <<"w", "m", "a">>, <<"o", "p", "u", "s">> }

\* the upper-case letters and, at the same index, their lower-case forms
UpperCase ==
  <<"A", "B", "C", "D", "E", "F", "G", "H", "I", "J", "K", "L", "M",
    "N", "O", "P", "Q", "R", "S", "T", "U", "V", "W", "X", "Y", "Z">>
LowerCase ==
  <<"a", "b", "c", "d", "e", "f", "g", "h", "i", "j", "k", "l", "m",
    "n", "o", "p", "q", "r", "s", "t", "u", "v", "w", "x", "y", "z">>

\* how the i flag of a regular expression (and toLowerCase) folds a character
ToLowerCase(c) ==
  IF \E i \in 1..Len(UpperCase) : UpperCase[i] = c
    THEN LowerCase[CHOOSE i \in 1..Len(UpperCase) : UpperCase[i] = c]
    ELSE c

\* /\.(e1|e2|...)$/i.test(name): the name ends with a dot followed by one
\* of the alternatives, letters compared without regard to case
test(alternatives, name) ==
  \E e \in alternatives :
    /\ Len(name) >= Len(e) + 1
    /\ name[Len(name) - Len(e)] = "."
    /\ \A j \in 1..Len(e) : ToLowerCase(name[Len(name) - Len(e) + j]) = e[j]

\* (a classification that wants both checks to match)
isVideoFileBoth(file) == file.type \in videoTypes /\ test(videoExtensions, file.name)

\* AudioService.isVideoFile(file)
isVideoFile(file) == file.type \in videoTypes \/ test(videoExtensions, file.name)

\* AudioService.isAudioFile(file)
isAudioFile(file) == file.type \in audioTypes \/ test(audioExtensions, file.name)

\* the files of the model: "clip." followed by every extension of the two
\* expressions, by some in other case and by foreign ones, and a few names
\* where the extension is not at the end or has no dot before it; each with
\* every type of the two lists, the empty type and some foreign types
Extensions ==
  videoExtensions \cup audioExtensions \cup
  { <<"M", "K", "V">>, <<"M", "p", "3">>, <<"W", "A", "V">>,
    <<"t", "x", "t">>, <<"a", "i", "f", "f">> }
Names ==
  { <<"c", "l", "i", "p", ".">> \o e : e \in Extensions } \cup
  { <<"m", "p", "4">>, <<"c", "l", "i", "p", "m", "k", "v">>,
    <<"c", "l", "i", "p", ".", "m", "p", "4", ".", "t", "x", "t">>,
    <<"c", "l", "i", "p", ".", "x", "m", "p", "3">>,
    <<"c", "l", "i", "p", ".", "m", "p", "3", "x">>, <<".", "w", "a", "v">> }
Types ==
  videoTypes \cup audioTypes \cup {NoType} \cup
  { <<"video", "x-matroska">>, <<"audio", "x-aiff">>, <<"text", "plain">>,
    <<"application", "octet-stream">> }
Files == [name : Names, type : Types]
NoFile == [name |-> <<>>, type |-> NoType]


\* AudioInput: the accept option of useDropzone, a MIME pattern "base/*"
\* with the extensions listed under it
accept ==
  [audio |-> { <<"w", "a", "v">>, <<"m", "p", "3">>, <<"m", "4", "a">>, <<"o", "g", "g">> },
   video |-> { <<"m", "p", "4">>, <<"a", "v", "i">>, <<"m", "o", "v">>, <<"m", "k", "v">> }]

\* what the dropzone does with a file before onDrop sees it: the file is
\* accepted when the base of its declared type matches one of the patterns
\* or its name, in lower case, ends with one of the listed extensions; any
\* other file is left out of acceptedFiles
fileAccepted(file) ==
  \/ file.type[1] \in DOMAIN accept
  \/ \E base \in DOMAIN accept : test(accept[base], file.name)

\* AudioInput: the messages it shows
Toast ==
  [uploaded |-> "Audio file uploaded",
   extracting |-> "Extracting audio from video...",
   extracted |-> "Audio extracted from video",
   extractFailed |-> "Failed to extract audio from video",
   notAllowed |-> "Only audio or video files are allowed",
   recordingStarted |-> "Recording started",
   recordingComplete |-> "Recording complete",
   micDenied |-> "Mic permission denied or device unavailable"]

VARIABLES
  env,            \* the browser (one of Envs)
  mediaRecorder,  \* AudioService.mediaRecorder: a recorder id, 0 = null
  stream,         \* AudioService.stream: a stream id, 0 = null
  chunks,         \* AudioService.chunks
  rec,            \* the MediaRecorder objects created so far
  tracks,         \* per acquired MediaStream: "none" | "live" | "stopped"
  startCall,      \* the startRecording promises
  stopCall,       \* the stopRecording promises
  norm,           \* the convertTo16kHzMono run of each stop handler
  \* --- one convertVideoToAudio job (the closure's locals) ---
  video,          \* the video element
  audioContext,   \* its AudioContext: "suspended" | "running" | "closed"
  isProcessing,   \* the closure's isProcessing flag
  pc,             \* where video.onloadedmetadata stands
  duration,       \* the duration that handler read
  vrec,           \* the closure's mediaRecorder
  vchunks,        \* the closure's chunks
  timers,         \* the 10 s metadata timer and the duration + 2 s timer
  job,            \* the promise convertVideoToAudio returned
  handler,        \* where mediaRecorder.onstop stands
  vnorm,          \* its convertTo16kHzMono run
  valid,          \* its validateAudioBlob run
  hist,           \* how often the job ran each of its effects
  \* --- one convertTo16kHzMono run, by the numbers ---
  npc,            \* where fileReader.onload stands
  audioBuffer,    \* the AudioBuffer decodeAudioData resolved with
  offlineContext, \* the OfflineAudioContext built for it
  renderedBuffer, \* the AudioBuffer startRendering resolved with
  wavBlob,        \* what audioBufferToWav returned for it
  \* --- one call of an encoder, byte by byte ---
  encoder,        \* the call and the Blob it returned
  \* --- one call of isVideoFile or isAudioFile ---
  classified,     \* the call and what it returned
  \* --- the AudioInput component (the entry point) ---
  upc,            \* where it stands: "idle" | "ignored" | "extracting" |
                  \*   "recording" | "done"
  dropped,        \* the file given to its dropzone
  converting,     \* the file it passed to audioService.convertVideoToAudio
  onAudioSelect,  \* the calls it made of its onAudioSelect prop, in order
  toast,          \* the messages it showed, in order
  streamRef,      \* the tracks of streamRef.current: "none" | "live" | "stopped"
  \* --- calls of the negotiation and of the capability query ---
  negotiated,     \* a call of getBestAudioMimeType and what it returned
  listed,         \* a call of getSupportedAudioFormats and what it returned
  \* --- one call of validateAudioBlob ---
  validation,     \* the promise it returned
  resolved,       \* its local flag `resolved`
  url,            \* the object URL of the blob: "none" | "live" | "revoked"
  timeout,        \* its 3000 ms timer: "none" | "armed" | "fired"
  heard,          \* the events its handlers and its timer have run for, in order
  \* --- the capability query ---
  report,         \* what getBrowserCapabilities returned last
  globals,        \* the constructors this browser defines as globals
  \* --- HomePage and its FeedbackForm ---
  selections,     \* files handed to handleAudioSelect so far; file n is the n-th
  selectedAudio,  \* state selectedAudio: 0 (null) or the file selected
  selectedModel,  \* state selectedModel: None (null) or the model chosen
  extraction,     \* the file a handleAudioSelect call is extracting, 0: none
  isAnalyzing,    \* state isAnalyzing
  analysis,       \* the handleAnalyze call in flight and the file it captured
  analysisResult, \* state analysisResult: 0 (null) or the file the result is of
  analysisId,     \* state analysisId: 0 (null) or the file whose row it names
  feedbackSubmitted, \* state feedbackSubmitted
  submitted,      \* FeedbackForm's state submitted
  submission,     \* the handleSubmit / handleFeedbackSubmit call in flight
  wavs,           \* the files uploaded to the bucket "wavs"
  feedback        \* the rows inserted into the table "feedback"

rvars == <<env, mediaRecorder, stream, chunks, rec, tracks, startCall, stopCall, norm>>
vvars == <<video, audioContext, isProcessing, pc, duration, vrec, vchunks, timers,
           job, handler, vnorm, valid, hist>>
wvars == <<npc, audioBuffer, offlineContext, renderedBuffer, wavBlob, encoder>>
cvars == <<classified>>
uvars == <<upc, dropped, converting, onAudioSelect, toast, streamRef>>
qvars == <<negotiated, listed>>
avars == <<validation, resolved, url, timeout, heard>>
gvars == <<report, globals>>
pvars == <<selections, selectedAudio, selectedModel, extraction, isAnalyzing, analysis,
           analysisResult, analysisId, feedbackSubmitted, submitted, submission,
           wavs, feedback>>
xvars == <<cvars, uvars, qvars, avars, gvars, pvars>>
vars == <<rvars, vvars, wvars, xvars>>

Sessions == 1..MaxCalls   \* start calls; call c acquires stream c, builds recorder c
Stops == 1..MaxCalls      \* stop calls

\* ---------------------------------------------------------- PCM Normalizer
\* convertTo16kHzMono(blob): the Promise executor; readAsArrayBuffer pending
NormIdle == [pc |-> "idle", input |-> NoBlob, outcome |-> "pending",
             value |-> NoBlob, err |-> None, failure |-> None]

convertTo16kHzMono(blob) == [NormIdle EXCEPT !.pc = "read", !.input = blob]

\* (a catch block that rethrows instead of falling back)
ConvertCatchRethrows(n, why) ==
  [n EXCEPT !.pc = "done", !.outcome = "rejected", !.err = why, !.failure = why]

\* the catch block of fileReader.onload: resolve(blob)
ConvertCatch(n, why) ==
  [n EXCEPT !.pc = "done", !.outcome = "resolved", !.value = n.input, !.failure = why]

\* fileReader.onerror: reject(new Error("Failed to read audio file"))
FileReaderOnError(n) ==
  [n EXCEPT !.pc = "done", !.outcome = "rejected", !.err = ErrRead, !.failure = "read"]

\* fileReader.onload up to `await audioContext.decodeAudioData`
FileReaderOnLoad(n) == [n EXCEPT !.pc = "decode"]

\* decodeAudioData settles; on success up to `await startRendering()`
DecodeSettled(n, ok) == IF ok THEN [n EXCEPT !.pc = "render"] ELSE ConvertCatch(n, "decode")

\* startRendering settles; on success audioBufferToWav and resolve(wavBlob)
RenderSettled(n, ok) ==
  IF ok
    THEN [n EXCEPT !.pc = "done", !.outcome = "resolved", !.value = audioBufferToWav(n.input)]
    ELSE ConvertCatch(n, "render")

\* ------------------------------------------------- Device Capture Recorder
RECURSIVE FirstSupported(_, _)
FirstSupported(i, supported) ==
  IF i > Len(types) THEN None
  ELSE IF types[i] \in supported THEN types[i]
  ELSE FirstSupported(i + 1, supported)

\* (a negotiation that returns the supported type of lowest priority)
RECURSIVE LastSupported(_, _)
LastSupported(i, supported) ==
  IF i < 1 THEN None
  ELSE IF types[i] \in supported THEN types[i]
  ELSE LastSupported(i - 1, supported)
getWorstAudioMimeType(supported) == LastSupported(Len(types), supported)

getBestAudioMimeType(supported) == FirstSupported(1, supported)

\* formats.filter((format) => MediaRecorder.isTypeSupported(format))
IsTypeSupportedIn(supported, format) == format \in supported
getSupportedAudioFormats(supported) ==
  LET isTypeSupported(format) == IsTypeSupportedIn(supported, format)
  IN SelectSeq(formats, isTypeSupported)

\* the mimeType a recorder built by startRecording reports
RecorderMime(e) ==
  IF getBestAudioMimeType(e.supported) # None
    THEN getBestAudioMimeType(e.supported)
    ELSE e.defaultMime

NoRec == [state |-> None, mime |-> "", stream |-> 0, onstop |-> 0,
          queue |-> None, got |-> <<>>]
\* a startRecording promise; gum: what getUserMedia answered this call
NoStart == [status |-> "unused", err |-> None, gum |-> None]
\* a stopRecording promise; on: the recorder it called stop() on (0: none);
\* active: that recorder was recording or stopping at the call;
\* raw: the blob its onstop handler finalized
NoStop == [status |-> "unused", value |-> NoBlob, err |-> None, on |-> 0,
           active |-> FALSE, raw |-> NoBlob]

\* new AudioService(): no session
RecInit ==
  /\ mediaRecorder = 0
  /\ stream = 0
  /\ chunks = <<>>
  /\ rec = [r \in Sessions |-> NoRec]
  /\ tracks = [s \in Sessions |-> None]
  /\ startCall = [c \in Sessions |-> NoStart]
  /\ stopCall = [k \in Stops |-> NoStop]
  /\ norm = [k \in Stops |-> NormIdle]

\* ---------------------------------------------------- Video Audio Extractor
\* video.duration as onloadedmetadata reads it: NaN, or a number of seconds
Durations == { [nan |-> TRUE, secs |-> 0], [nan |-> FALSE, secs |-> 0],
               [nan |-> FALSE, secs |-> 5] }

\* (a check that tests `duration === 0` alone)
NoDurationZeroOnly(d) == ~d.nan /\ d.secs = 0

\* `!duration || duration === 0`
NoDuration(d) == d.nan \/ d.secs = 0

\* convertVideoToAudio(videoFile): the Promise executor up to its return.
\* ctx: the state the browser creates the AudioContext in.
JobInit(ctx) ==
  /\ video = [revoked |-> FALSE, removed |-> FALSE, playing |-> FALSE, ended |-> FALSE,
              errored |-> FALSE, onended |-> FALSE, metas |-> 0]
  /\ audioContext = ctx
  /\ isProcessing = FALSE
  /\ pc = "idle"
  /\ duration = [nan |-> TRUE, secs |-> 0]
  /\ vrec = [state |-> None, queue |-> None, stoppedBy |-> None]
  /\ vchunks = <<>>
  /\ timers = [meta |-> "armed", deadline |-> "unset", delay |-> 0]
  /\ job = [status |-> "pending", value |-> NoBlob, duration |-> 0, err |-> None]
  /\ handler = "idle"
  /\ vnorm = NormIdle
  /\ valid = "idle"
  /\ hist = [cleanups |-> 0, recStarts |-> 0, recStops |-> 0, plays |-> 0,
             norms |-> 0, valids |-> 0]

\* no convertTo16kHzMono run and no encoder call looked at by the numbers
NoWav == [type |-> "", header |-> <<>>, size |-> 0]
NoEncoder == [by |-> None, buffer |-> NoBuffer, bitDepth |-> 0,
              out |-> [type |-> "", bytes |-> <<>>, offset |-> 0]]
WavInit ==
  /\ npc = "decode"
  /\ audioBuffer = NoBuffer
  /\ offlineContext = NoBuffer
  /\ renderedBuffer = NoBuffer
  /\ wavBlob = NoWav
  /\ encoder = NoEncoder

\* getBrowserCapabilities not yet called
\* (threw: the error the call ended with instead of returning)
NoReport == [called |-> FALSE, threw |-> None, supportsMediaRecorder |-> FALSE,
             supportsWebAudio |-> FALSE, supportedFormats |-> <<>>]

\* the globals getBrowserCapabilities asks for; a browser defines any of them
Globals == {"MediaRecorder", "AudioContext", "webkitAudioContext"}
\* evaluating an identifier that is not defined
ReferenceError == "ReferenceError"

\* no classification asked for yet
NotClassified == [of |-> None, file |-> NoFile, returned |-> FALSE]
\* no handleAnalyze call, no feedback submission in flight
NoAnalysis == [pc |-> "idle", audio |-> 0]
NoSubmission == [pc |-> "idle", analysisId |-> 0, audio |-> 0, uploaded |-> FALSE,
                 mounted |-> FALSE]

\* HomePage as first rendered, for a signed-in user
PageInit ==
  /\ selections = 0
  /\ selectedAudio = 0
  /\ selectedModel = None
  /\ extraction = 0
  /\ isAnalyzing = FALSE
  /\ analysis = NoAnalysis
  /\ analysisResult = 0
  /\ analysisId = 0
  /\ feedbackSubmitted = FALSE
  /\ submitted = FALSE
  /\ submission = NoSubmission
  /\ wavs = {}
  /\ feedback = {}

XInit ==
  /\ PageInit
  /\ classified = NotClassified
  /\ upc = "idle"
  /\ dropped = NoFile
  /\ converting = NoFile
  /\ onAudioSelect = <<>>
  /\ toast = <<>>
  /\ streamRef = "none"
  /\ negotiated = [called |-> FALSE, returned |-> None]
  /\ listed = [called |-> FALSE, returned |-> <<>>]
  /\ validation = [status |-> "none", value |-> FALSE]
  /\ resolved = FALSE
  /\ url = "none"
  /\ timeout = "none"
  /\ heard = <<>>
  /\ report = NoReport

Init ==
  /\ env \in Envs
  /\ RecInit
  /\ JobInit("suspended")
  /\ WavInit
  /\ XInit
  /\ globals = Globals

\* a promise settles once: resolve / reject after that are no-ops
Resolve(p, v) == IF p.status = "pending" THEN [p EXCEPT !.status = "resolved", !.value = v] ELSE p
Reject(p, e) == IF p.status = "pending" THEN [p EXCEPT !.status = "rejected", !.err = e] ELSE p

\* the calls made so far
Calls ==
  Cardinality({c \in Sessions : startCall[c].status # "unused"})
    + Cardinality({k \in Stops : stopCall[k].status # "unused"})

\* startRecording(): up to `await getUserMedia(...)`
StartRecording(c) ==
  /\ Calls < MaxCalls
  /\ startCall[c].status = "unused"
  /\ \A d \in Sessions : d < c => startCall[d].status # "unused"
  /\ startCall' = [startCall EXCEPT ![c].status = "gum", ![c].gum = "pending"]
  /\ UNCHANGED <<env, mediaRecorder, stream, chunks, rec, tracks, stopCall, norm>>
  /\ UNCHANGED <<vvars, wvars, xvars>>

\* (a catch block that logs the denial and returns normally)
GumDeniedSwallowed(c) ==
  /\ startCall[c].status = "gum"
  /\ startCall' = [startCall EXCEPT ![c] =
                     [status |-> "resolved", err |-> None, gum |-> "denied"]]
  /\ UNCHANGED <<env, mediaRecorder, stream, chunks, rec, tracks, stopCall, norm>>
  /\ UNCHANGED <<vvars, wvars, xvars>>

\* getUserMedia rejects (permission denied, no device): the catch block
GumDenied(c) ==
  /\ startCall[c].status = "gum"
  /\ startCall' = [startCall EXCEPT ![c] =
                     [status |-> "rejected", err |-> ErrStart, gum |-> "denied"]]
  /\ UNCHANGED <<env, mediaRecorder, stream, chunks, rec, tracks, stopCall, norm>>
  /\ UNCHANGED <<vvars, wvars, xvars>>

\* getUserMedia resolves with stream c: the rest of the try block.
\* how = "ok" | "ctor" (new MediaRecorder throws) | "start" (start(100) throws)
GumGranted(c, how) ==
  /\ startCall[c].status = "gum"
  /\ stream' = c
  /\ tracks' = [tracks EXCEPT ![c] = "live"]
  /\ IF how = "ctor"
       THEN /\ UNCHANGED <<mediaRecorder, chunks, rec>>
            /\ startCall' = [startCall EXCEPT ![c] =
                               [status |-> "rejected", err |-> ErrStart, gum |-> "granted"]]
       ELSE /\ mediaRecorder' = c
            /\ chunks' = <<>>
            /\ rec' = [rec EXCEPT ![c] =
                         [NoRec EXCEPT !.state = IF how = "ok" THEN "recording" ELSE "inactive",
                                       !.mime = RecorderMime(env),
                                       !.stream = c]]
            /\ startCall' = [startCall EXCEPT ![c] =
                               IF how = "ok"
                                 THEN [status |-> "resolved", err |-> None, gum |-> "granted"]
                                 ELSE [status |-> "rejected", err |-> ErrStart, gum |-> "granted"]]
  /\ UNCHANGED <<env, stopCall, norm>>
  /\ UNCHANGED <<vvars, wvars, xvars>>

\* the chunk recorder r delivers next
NextChunk(r) == [rec |-> r, n |-> Len(rec[r].got) + 1]

\* mediaRecorder.ondataavailable: a non-empty chunk is pushed onto the list
OnDataAvailable(list, data, size) == IF size > 0 THEN Append(list, data) ELSE list

\* a timeslice tick of recording recorder r; its handler pushes onto this.chunks
\* (rec[r].got: every non-empty chunk recorder r has delivered, in order)
DataAvailable(r, size) ==
  /\ rec[r].state = "recording"
  /\ Len(rec[r].got) < MaxData
  /\ chunks' = OnDataAvailable(chunks, NextChunk(r), size)
  /\ rec' = [rec EXCEPT ![r].got = OnDataAvailable(@, NextChunk(r), size)]
  /\ UNCHANGED <<env, mediaRecorder, stream, tracks, startCall, stopCall, norm>>
  /\ UNCHANGED <<vvars, wvars, xvars>>

\* all tracks of a recording recorder's stream have ended: it stops by itself
TracksEnded(r) ==
  /\ rec[r].state = "recording"
  /\ tracks[rec[r].stream] = "stopped"
  /\ rec' = [rec EXCEPT ![r].state = "inactive", ![r].queue = "stop"]
  /\ UNCHANGED <<env, mediaRecorder, stream, chunks, tracks, startCall, stopCall, norm>>
  /\ UNCHANGED <<vvars, wvars, xvars>>

\* (a stopRecording that finalizes the chunk list at the call itself, while
\* the recorder is still recording, instead of in the stop event's handler)
StopRecordingEager(k, onInactive) ==
  /\ Calls < MaxCalls
  /\ stopCall[k].status = "unused"
  /\ \A j \in Stops : j < k => stopCall[j].status # "unused"
  /\ mediaRecorder # 0
  /\ rec[mediaRecorder].state = "recording"
  /\ LET r == mediaRecorder
         blob == MkBlob(chunks, IF rec[r].mime # "" THEN rec[r].mime ELSE DefaultMime)
     IN /\ rec' = [rec EXCEPT ![r].state = "inactive", ![r].queue = "stop"]
        /\ stopCall' = [stopCall EXCEPT ![k] =
                          [NoStop EXCEPT !.status = "pending", !.on = r,
                                         !.active = TRUE, !.raw = blob]]
        /\ norm' = [norm EXCEPT ![k] = convertTo16kHzMono(blob)]
        /\ tracks' = IF stream # 0 THEN [tracks EXCEPT ![stream] = "stopped"] ELSE tracks
        /\ stream' = 0
        /\ mediaRecorder' = 0
        /\ chunks' = <<>>
  /\ UNCHANGED <<env, startCall>>
  /\ UNCHANGED <<vvars, wvars, xvars>>

\* (a stopRecording that runs cleanup() before it rejects for want of a
\* recorder)
StopRecordingCleansUp(k, onInactive) ==
  /\ Calls < MaxCalls
  /\ stopCall[k].status = "unused"
  /\ \A j \in Stops : j < k => stopCall[j].status # "unused"
  /\ IF mediaRecorder = 0
       THEN /\ stopCall' = [stopCall EXCEPT ![k] =
                              [NoStop EXCEPT !.status = "rejected", !.err = ErrNoRecording]]
            /\ tracks' = IF stream # 0 THEN [tracks EXCEPT ![stream] = "stopped"] ELSE tracks
            /\ stream' = 0
            /\ chunks' = <<>>
            /\ UNCHANGED <<rec, mediaRecorder>>
       ELSE LET r == mediaRecorder IN
            /\ rec' = [rec EXCEPT ![r].onstop = k,
                                  ![r].state = "inactive",
                                  ![r].queue = IF rec[r].state = "recording" THEN "stop" ELSE @]
            /\ stopCall' = [stopCall EXCEPT ![k] =
                              [NoStop EXCEPT
                                 !.status = IF rec[r].state # "recording" /\ onInactive = "throw"
                                              THEN "rejected" ELSE "pending",
                                 !.err = IF rec[r].state # "recording" /\ onInactive = "throw"
                                           THEN ErrInvalidState ELSE None,
                                 !.on = r,
                                 !.active = (rec[r].state = "recording" \/ rec[r].queue = "stop")]]
            /\ UNCHANGED <<mediaRecorder, stream, chunks, tracks>>
  /\ UNCHANGED <<env, startCall, norm>>
  /\ UNCHANGED <<vvars, wvars, xvars>>

\* stopRecording(): the Promise executor.
\* onInactive = "noop" | "throw": what stop() does on an inactive recorder
StopRecording(k, onInactive) ==
  /\ Calls < MaxCalls
  /\ stopCall[k].status = "unused"
  /\ \A j \in Stops : j < k => stopCall[j].status # "unused"
  /\ IF mediaRecorder = 0
       THEN /\ stopCall' = [stopCall EXCEPT ![k] =
                              [NoStop EXCEPT !.status = "rejected", !.err = ErrNoRecording]]
            /\ UNCHANGED rec
       ELSE LET r == mediaRecorder IN
            IF rec[r].state = "recording"
              THEN /\ rec' = [rec EXCEPT ![r].onstop = k, ![r].state = "inactive",
                                         ![r].queue = "stop"]
                   /\ stopCall' = [stopCall EXCEPT ![k] =
                                     [NoStop EXCEPT !.status = "pending", !.on = r,
                                                    !.active = TRUE]]
              ELSE /\ rec' = [rec EXCEPT ![r].onstop = k]
                   /\ stopCall' = [stopCall EXCEPT ![k] =
                                     [NoStop EXCEPT
                                        !.status = IF onInactive = "throw" THEN "rejected"
                                                   ELSE "pending",
                                        !.err = IF onInactive = "throw" THEN ErrInvalidState
                                                ELSE None,
                                        !.on = r,
                                        !.active = rec[r].queue = "stop"]]
  /\ UNCHANGED <<env, mediaRecorder, stream, chunks, tracks, startCall, norm>>
  /\ UNCHANGED <<vvars, wvars, xvars>>

\* (a stop handler that starts normalizing first and leaves cleanup() for
\* after the conversion)
StopEventCleanupLater(r, size) ==
  /\ rec[r].queue = "stop"
  /\ rec' = [rec EXCEPT ![r].queue = "done",
                        ![r].got = OnDataAvailable(@, NextChunk(r), size)]
  /\ chunks' = OnDataAvailable(chunks, NextChunk(r), size)
  /\ IF rec[r].onstop = 0
       THEN UNCHANGED <<stopCall, norm>>
       ELSE LET k == rec[r].onstop
                reported == IF mediaRecorder # 0 THEN rec[mediaRecorder].mime ELSE ""
                blob == MkBlob(chunks', IF reported # "" THEN reported ELSE DefaultMime)
            IN /\ stopCall' = [stopCall EXCEPT ![k].raw = blob]
               /\ norm' = [norm EXCEPT ![k] = convertTo16kHzMono(blob)]
  /\ UNCHANGED <<env, mediaRecorder, stream, tracks, startCall>>
  /\ UNCHANGED <<vvars, wvars, xvars>>

\* The task a stopped recorder r runs: its final dataavailable (of `size`
\* bytes), then its stop event: mediaRecorder.onstop of stopRecording up to
\* `await convertTo16kHzMono` (finalize the blob, cleanup(), start normalizing).
StopEvent(r, size) ==
  /\ rec[r].queue = "stop"
  /\ rec' = [rec EXCEPT ![r].queue = "done",
                        ![r].got = OnDataAvailable(@, NextChunk(r), size)]
  /\ IF rec[r].onstop = 0
       THEN /\ chunks' = OnDataAvailable(chunks, NextChunk(r), size)
            /\ UNCHANGED <<mediaRecorder, stream, tracks, stopCall, norm>>
       ELSE LET k == rec[r].onstop
                reported == IF mediaRecorder # 0 THEN rec[mediaRecorder].mime ELSE ""
                mimeType == IF reported # "" THEN reported ELSE DefaultMime
                blob == MkBlob(OnDataAvailable(chunks, NextChunk(r), size), mimeType)
            IN \* cleanup()
               /\ tracks' = IF stream # 0 THEN [tracks EXCEPT ![stream] = "stopped"] ELSE tracks
               /\ stream' = 0
               /\ mediaRecorder' = 0
               /\ chunks' = <<>>
               \* try { await this.convertTo16kHzMono(blob) ...
               /\ stopCall' = [stopCall EXCEPT ![k].raw = blob]
               /\ norm' = [norm EXCEPT ![k] = convertTo16kHzMono(blob)]
  /\ UNCHANGED <<env, startCall>>
  /\ UNCHANGED <<vvars, wvars, xvars>>

\* the rest of onstop once the normalization of handler k has settled
AfterConvert(k, n) ==
  IF n.outcome = "resolved" THEN Resolve(stopCall[k], n.value)
  ELSE IF n.outcome = "rejected" THEN Resolve(stopCall[k], stopCall[k].raw)
  ELSE stopCall[k]

NormStep(k, n) ==
  /\ norm' = [norm EXCEPT ![k] = n]
  /\ stopCall' = [stopCall EXCEPT ![k] = AfterConvert(k, n)]
  /\ UNCHANGED <<env, mediaRecorder, stream, chunks, rec, tracks, startCall>>
  /\ UNCHANGED <<vvars, wvars, xvars>>

NormRead(k, ok) ==
  /\ norm[k].pc = "read"
  /\ NormStep(k, IF ok THEN FileReaderOnLoad(norm[k]) ELSE FileReaderOnError(norm[k]))

NormDecode(k, ok) ==
  /\ norm[k].pc = "decode"
  /\ NormStep(k, DecodeSettled(norm[k], ok))

NormRender(k, ok) ==
  /\ norm[k].pc = "render"
  /\ NormStep(k, RenderSettled(norm[k], ok))

Next ==
  \/ \E c \in Sessions : StartRecording(c)
  \/ \E c \in Sessions : GumDenied(c)
  \/ \E c \in Sessions, how \in {"ok", "ctor", "start"} : GumGranted(c, how)
  \/ \E r \in Sessions, size \in 0..1 : DataAvailable(r, size)
  \/ \E r \in Sessions : TracksEnded(r)
  \/ \E k \in Stops, onInactive \in {"noop", "throw"} : StopRecording(k, onInactive)
  \/ \E r \in Sessions, size \in 0..1 : StopEvent(r, size)
  \/ \E k \in Stops, ok \in BOOLEAN : NormRead(k, ok)
  \/ \E k \in Stops, ok \in BOOLEAN : NormDecode(k, ok)
  \/ \E k \in Stops, ok \in BOOLEAN : NormRender(k, ok)

Spec == Init /\ [][Next]_vars

\* Spec with the browser's part made fair: a recorder that was stopped does
\* deliver its stop event, and FileReader / decodeAudioData / startRendering
\* do answer. The caller's own calls are under no obligation.
SpecFair ==
  /\ Spec
  /\ WF_vars(\E r \in Sessions, size \in 0..1 : StopEvent(r, size))
  /\ WF_vars(\E k \in Stops, ok \in BOOLEAN : NormRead(k, ok))
  /\ WF_vars(\E k \in Stops, ok \in BOOLEAN : NormDecode(k, ok))
  /\ WF_vars(\E k \in Stops, ok \in BOOLEAN : NormRender(k, ok))

\* ------------------------------------------ convertVideoToAudio: the job
\* the messages handleError is given
ErrNoDuration == "Video has no duration or is corrupted"
ErrMetaTimeout == "Timeout: Video metadata could not be loaded"
ErrNoAudio == "No audio data was captured from the video"
ErrEmptyFile == "Extracted audio file is empty"
ErrNotPlayable == "Extracted audio is not playable"
ErrRecorder == "MediaRecorder error during audio extraction"
ErrPlay == "Failed to play video for audio extraction"
ErrPlayback == "Video playback error during audio extraction"
ErrLoad == "Failed to load video file"
ErrUnexpected == "Unexpected error during audio extraction"

\* cleanup(): revokeObjectURL(video.src), audioContext.close(), video.remove().
\* The element was never attached to the document: remove() does not pause it.
cleanup(v) == [v EXCEPT !.revoked = TRUE, !.removed = TRUE]

\* handleError(error) on video v with history h: cleanup(), then reject
handleError(v, h, error) ==
  /\ video' = cleanup(v)
  /\ audioContext' = "closed"
  /\ hist' = [h EXCEPT !.cleanups = @ + 1]
  /\ job' = Reject(job, error)

\* mediaRecorder.stop(): the recorder is inactive at once, its last
\* dataavailable and its stop event are queued
RecorderStop(by) == [state |-> "inactive", queue |-> "stop", stoppedBy |-> by]

\* video.onloadedmetadata from the graph construction to `await video.play()`,
\* on video v. how = "throw": a node or recorder constructor, or start(100),
\* throws, and the handler's catch block runs
BuildAndPlay(v, how) ==
  IF how = "throw"
    THEN /\ handleError(v, hist, ErrUnexpected)
         /\ pc' = "exit"
         /\ UNCHANGED <<vrec, vchunks>>
    ELSE /\ vrec' = [state |-> "recording", queue |-> None, stoppedBy |-> None]
         /\ vchunks' = <<>>
         /\ hist' = [hist EXCEPT !.recStarts = @ + 1, !.plays = @ + 1]
         /\ pc' = "play"
         /\ video' = v
         /\ audioContext' = IF audioContext = "suspended" THEN "running" ELSE audioContext
         /\ UNCHANGED job

\* (an onloadedmetadata handler without the isProcessing test)
LoadedMetadataUnguarded(d, how) ==
  /\ video.metas < MaxMeta
  /\ LET v == [video EXCEPT !.metas = @ + 1] IN
     /\ isProcessing' = TRUE
     /\ duration' = d
     /\ IF NoDuration(d)
          THEN /\ handleError(v, hist, ErrNoDuration)
               /\ pc' = "exit"
               /\ UNCHANGED <<vrec, vchunks>>
          ELSE IF audioContext = "suspended"
            THEN /\ pc' = "resume"
                 /\ video' = v
                 /\ UNCHANGED <<audioContext, vrec, vchunks, job, hist>>
            ELSE BuildAndPlay(v, how)
  /\ UNCHANGED <<timers, handler, vnorm, valid>>
  /\ UNCHANGED <<rvars, wvars, xvars>>

\* the loadedmetadata event: video.onloadedmetadata up to its first await
LoadedMetadata(d, how) ==
  /\ video.metas < MaxMeta
  /\ LET v == [video EXCEPT !.metas = @ + 1] IN
     IF isProcessing
       THEN /\ video' = v
            /\ UNCHANGED <<audioContext, isProcessing, pc, duration, vrec, vchunks, job, hist>>
       ELSE /\ isProcessing' = TRUE
            /\ duration' = d
            /\ IF NoDuration(d)
                 THEN /\ handleError(v, hist, ErrNoDuration)
                      /\ pc' = "exit"
                      /\ UNCHANGED <<vrec, vchunks>>
                 ELSE IF audioContext = "suspended"
                   THEN /\ pc' = "resume"
                        /\ video' = v
                        /\ UNCHANGED <<audioContext, vrec, vchunks, job, hist>>
                   ELSE BuildAndPlay(v, how)
  /\ UNCHANGED <<timers, handler, vnorm, valid>>
  /\ UNCHANGED <<rvars, wvars, xvars>>

\* audioContext.resume() settles (it rejects on a closed context)
ResumeSettled(ok, how) ==
  /\ pc = "resume"
  /\ ok => audioContext # "closed"
  /\ IF ok
       THEN BuildAndPlay(video, how)
       ELSE /\ handleError(video, hist, ErrUnexpected)
            /\ pc' = "exit"
            /\ UNCHANGED <<vrec, vchunks>>
  /\ UNCHANGED <<isProcessing, duration, timers, handler, vnorm, valid>>
  /\ UNCHANGED <<rvars, wvars, xvars>>

\* video.play() settles (it rejects once the element has a media error):
\* on success onended, the playback onerror and the deadline timer are set
PlaySettled(ok) ==
  /\ pc = "play"
  /\ ok => ~video.errored
  /\ IF ok
       THEN /\ video' = [video EXCEPT !.playing = TRUE, !.onended = TRUE]
            /\ timers' = [timers EXCEPT !.deadline = "armed",
                                        !.delay = (duration.secs + 2) * 1000]
            /\ pc' = "armed"
            /\ UNCHANGED <<audioContext, job, hist>>
       ELSE /\ handleError(video, hist, ErrPlay)
            /\ pc' = "exit"
            /\ UNCHANGED timers
  /\ UNCHANGED <<isProcessing, duration, vrec, vchunks, handler, vnorm, valid>>
  /\ UNCHANGED <<rvars, wvars, xvars>>

\* the video's error event: the load-time video.onerror, or the playback
\* video.onerror that replaces it after play()
VideoError ==
  /\ ~video.errored
  /\ handleError([video EXCEPT !.errored = TRUE, !.playing = FALSE], hist,
                 IF video.onended THEN ErrPlayback ELSE ErrLoad)
  /\ UNCHANGED <<isProcessing, pc, duration, vrec, vchunks, timers, handler, vnorm, valid>>
  /\ UNCHANGED <<rvars, wvars, xvars>>

\* the video's ended event: video.onended. The event is delivered as a task
\* of its own, so it may arrive after the deadline has paused the video.
Ended ==
  /\ video.onended /\ ~video.ended
  /\ video' = [video EXCEPT !.playing = FALSE, !.ended = TRUE]
  /\ IF vrec.state = "recording"
       THEN /\ vrec' = RecorderStop("ended")
            /\ hist' = [hist EXCEPT !.recStops = @ + 1]
       ELSE UNCHANGED <<vrec, hist>>
  /\ UNCHANGED <<audioContext, isProcessing, pc, duration, vchunks, timers, job,
                 handler, vnorm, valid>>
  /\ UNCHANGED <<rvars, wvars, xvars>>

\* (a deadline that does not look at the recorder's state before stopping it)
DeadlineFireUnguarded ==
  /\ timers.deadline = "armed"
  /\ timers' = [timers EXCEPT !.deadline = "fired"]
  /\ video' = [video EXCEPT !.playing = FALSE]
  /\ vrec' = RecorderStop("deadline")
  /\ hist' = [hist EXCEPT !.recStops = @ + 1]
  /\ UNCHANGED <<audioContext, isProcessing, pc, duration, vchunks, job, handler, vnorm, valid>>
  /\ UNCHANGED <<rvars, wvars, xvars>>

\* (a deadline that stops the recorder and leaves the video playing)
DeadlineFireNoPause ==
  /\ timers.deadline = "armed"
  /\ timers' = [timers EXCEPT !.deadline = "fired"]
  /\ IF vrec.state = "recording"
       THEN /\ vrec' = RecorderStop("deadline")
            /\ hist' = [hist EXCEPT !.recStops = @ + 1]
       ELSE UNCHANGED <<vrec, hist>>
  /\ UNCHANGED <<video, audioContext, isProcessing, pc, duration, vchunks, job, handler,
                 vnorm, valid>>
  /\ UNCHANGED <<rvars, wvars, xvars>>

\* the fallback timeout set after play(): (duration + 2) * 1000 ms
DeadlineFire ==
  /\ timers.deadline = "armed"
  /\ timers' = [timers EXCEPT !.deadline = "fired"]
  /\ IF vrec.state = "recording"
       THEN /\ video' = [video EXCEPT !.playing = FALSE]
            /\ vrec' = RecorderStop("deadline")
            /\ hist' = [hist EXCEPT !.recStops = @ + 1]
       ELSE UNCHANGED <<video, vrec, hist>>
  /\ UNCHANGED <<audioContext, isProcessing, pc, duration, vchunks, job, handler, vnorm, valid>>
  /\ UNCHANGED <<rvars, wvars, xvars>>

\* the timeout for metadata loading: 10000 ms
MetaTimerFire ==
  /\ timers.meta = "armed"
  /\ timers' = [timers EXCEPT !.meta = "fired"]
  /\ IF ~isProcessing
       THEN handleError(video, hist, ErrMetaTimeout)
       ELSE UNCHANGED <<video, audioContext, job, hist>>
  /\ UNCHANGED <<isProcessing, pc, duration, vrec, vchunks, handler, vnorm, valid>>
  /\ UNCHANGED <<rvars, wvars, xvars>>

\* the chunk the job's recorder delivers next
VNextChunk == [rec |-> 0, n |-> Len(vchunks) + 1]

\* a timeslice tick of the job's recorder: mediaRecorder.ondataavailable
VDataAvailable(size) ==
  /\ vrec.state = "recording"
  /\ Len(vchunks) < MaxChunks
  /\ vchunks' = OnDataAvailable(vchunks, VNextChunk, size)
  /\ UNCHANGED <<video, audioContext, isProcessing, pc, duration, vrec, timers, job,
                 handler, vnorm, valid, hist>>
  /\ UNCHANGED <<rvars, wvars, xvars>>

\* the recorder cannot go on: it is inactivated and fires error
\* (mediaRecorder.onerror); its last dataavailable and stop follow
VRecorderError ==
  /\ vrec.state = "recording"
  /\ vrec' = RecorderStop("error")
  /\ handleError(video, hist, ErrRecorder)
  /\ UNCHANGED <<isProcessing, pc, duration, vchunks, timers, handler, vnorm, valid>>
  /\ UNCHANGED <<rvars, wvars, xvars>>

\* new Blob(chunks).size, every pushed chunk being at least one byte
BlobSize(blob) == Len(blob.parts)

\* (a stop handler that finalizes and normalizes whatever was captured,
\* without looking at the chunk list or the blob size)
VStopEventUnchecked(size) ==
  /\ vrec.queue = "stop"
  /\ vrec' = [vrec EXCEPT !.queue = "done"]
  /\ vchunks' = OnDataAvailable(vchunks, VNextChunk, size)
  /\ vnorm' = convertTo16kHzMono(MkBlob(vchunks', WavMime))
  /\ handler' = "norm"
  /\ hist' = [hist EXCEPT !.norms = @ + 1]
  /\ UNCHANGED <<video, audioContext, job>>
  /\ UNCHANGED <<isProcessing, pc, duration, timers, valid>>
  /\ UNCHANGED <<rvars, wvars, xvars>>

\* The task the stopped recorder runs: its last dataavailable (of `size`
\* bytes), then mediaRecorder.onstop up to `await convertTo16kHzMono`
VStopEvent(size) ==
  /\ vrec.queue = "stop"
  /\ vrec' = [vrec EXCEPT !.queue = "done"]
  /\ vchunks' = OnDataAvailable(vchunks, VNextChunk, size)
  /\ LET rawAudioBlob == MkBlob(vchunks', WavMime) IN
     IF Len(vchunks') = 0
       THEN /\ handleError(video, hist, ErrNoAudio)
            /\ handler' = "done"
            /\ UNCHANGED vnorm
       ELSE IF BlobSize(rawAudioBlob) = 0
         THEN /\ handleError(video, hist, ErrEmptyFile)
              /\ handler' = "done"
              /\ UNCHANGED vnorm
         ELSE /\ vnorm' = convertTo16kHzMono(rawAudioBlob)
              /\ handler' = "norm"
              /\ hist' = [hist EXCEPT !.norms = @ + 1]
              /\ UNCHANGED <<video, audioContext, job>>
  /\ UNCHANGED <<isProcessing, pc, duration, timers, valid>>
  /\ UNCHANGED <<rvars, wvars, xvars>>

\* mediaRecorder.onstop once its normalization run has become n: on a
\* resolved run validateAudioBlob starts, a rejected one goes to the catch
VNormStep(n) ==
  /\ handler = "norm"
  /\ vnorm' = n
  /\ IF n.outcome = "resolved"
       THEN /\ handler' = "valid"
            /\ valid' = "wait"
            /\ hist' = [hist EXCEPT !.valids = @ + 1]
            /\ UNCHANGED <<video, audioContext, job>>
       ELSE IF n.outcome = "rejected"
         THEN /\ handleError(video, hist, n.err)
              /\ handler' = "done"
              /\ UNCHANGED valid
         ELSE UNCHANGED <<video, audioContext, job, hist, handler, valid>>
  /\ UNCHANGED <<isProcessing, pc, duration, vrec, vchunks, timers>>
  /\ UNCHANGED <<rvars, wvars, xvars>>

VNormRead(ok) ==
  /\ vnorm.pc = "read"
  /\ VNormStep(IF ok THEN FileReaderOnLoad(vnorm) ELSE FileReaderOnError(vnorm))

VNormDecode(ok) ==
  /\ vnorm.pc = "decode"
  /\ VNormStep(DecodeSettled(vnorm, ok))

VNormRender(ok) ==
  /\ vnorm.pc = "render"
  /\ VNormStep(RenderSettled(vnorm, ok))

\* mediaRecorder.onstop once validateAudioBlob has resolved isValid
AfterValidate(isValid) ==
  /\ valid' = IF isValid THEN "true" ELSE "false"
  /\ handler' = "done"
  /\ IF ~isValid
       THEN handleError(video, hist, ErrNotPlayable)
       ELSE /\ video' = cleanup(video)
            /\ audioContext' = "closed"
            /\ hist' = [hist EXCEPT !.cleanups = @ + 1]
            /\ job' = IF job.status = "pending"
                        THEN [job EXCEPT !.status = "resolved", !.value = vnorm.value,
                                         !.duration = duration.secs]
                        ELSE job
  /\ UNCHANGED <<isProcessing, pc, duration, vrec, vchunks, timers, vnorm>>
  /\ UNCHANGED <<rvars, wvars, xvars>>

\* the validator's audio element answers: canplaythrough / loadeddata (true)
\* or error (false)
ValidatorEvent(isValid) ==
  /\ handler = "valid" /\ valid = "wait"
  /\ AfterValidate(isValid)

\* the validator's 3000 ms timeout fires first: false
ValidatorTimeout ==
  /\ handler = "valid" /\ valid = "wait"
  /\ AfterValidate(FALSE)

VInit ==
  /\ env = CHOOSE e \in Envs : e.supported # {}
  /\ RecInit
  /\ \E ctx \in {"suspended", "running"} : JobInit(ctx)
  /\ WavInit
  /\ XInit
  /\ globals = Globals

VNext ==
  \/ \E d \in Durations, how \in {"ok", "throw"} : LoadedMetadata(d, how)
  \/ \E ok \in BOOLEAN, how \in {"ok", "throw"} : ResumeSettled(ok, how)
  \/ \E ok \in BOOLEAN : PlaySettled(ok)
  \/ VideoError
  \/ Ended
  \/ DeadlineFire
  \/ MetaTimerFire
  \/ \E size \in 0..1 : VDataAvailable(size)
  \/ VRecorderError
  \/ \E size \in 0..1 : VStopEvent(size)
  \/ \E ok \in BOOLEAN : VNormRead(ok)
  \/ \E ok \in BOOLEAN : VNormDecode(ok)
  \/ \E ok \in BOOLEAN : VNormRender(ok)
  \/ \E isValid \in BOOLEAN : ValidatorEvent(isValid)
  \/ ValidatorTimeout

SpecVideo == VInit /\ [][VNext]_vars

\* the timers of the job and of its validator fire
SpecVideoFair ==
  /\ VInit /\ [][VNext]_vars
  /\ WF_vars(MetaTimerFire) /\ WF_vars(DeadlineFire) /\ WF_vars(ValidatorTimeout)

\* ------------------------------------- convertTo16kHzMono by the numbers
\* decodeAudioData resolves with `buffer`: fileReader.onload up to
\* `await offlineContext.startRendering()`. `new OfflineAudioContext` throws
\* on a length of 0, which takes the handler to its catch block.
Decoded(buffer) ==
  /\ npc = "decode"
  /\ audioBuffer' = buffer
  /\ IF targetLength(buffer) = 0
       THEN /\ npc' = "fallback"
            /\ UNCHANGED offlineContext
       ELSE /\ npc' = "render"
            /\ offlineContext' = [length |-> targetLength(buffer),
                                  sampleRate |-> targetSampleRate,
                                  numberOfChannels |-> targetChannels]
  /\ UNCHANGED <<renderedBuffer, wavBlob, encoder>>
  /\ UNCHANGED <<rvars, vvars, xvars>>

\* decodeAudioData rejects: the catch block, resolve(blob)
DecodeFailed ==
  /\ npc = "decode"
  /\ npc' = "fallback"
  /\ UNCHANGED <<audioBuffer, offlineContext, renderedBuffer, wavBlob, encoder>>
  /\ UNCHANGED <<rvars, vvars, xvars>>

\* startRendering settles: on success the rendered buffer has the length,
\* rate and channel count of its context, and audioBufferToWav(_, 16) runs
Rendered(ok) ==
  /\ npc = "render"
  /\ IF ok
       THEN /\ renderedBuffer' = offlineContext
            /\ wavBlob' = [type |-> WavMime,
                           header |-> WavHeader(offlineContext.length,
                                                offlineContext.numberOfChannels,
                                                offlineContext.sampleRate, 16),
                           size |-> WavSize(offlineContext.length,
                                            offlineContext.numberOfChannels, 16)]
            /\ npc' = "done"
       ELSE /\ npc' = "fallback"
            /\ UNCHANGED <<renderedBuffer, wavBlob>>
  /\ UNCHANGED <<audioBuffer, offlineContext, encoder>>
  /\ UNCHANGED <<rvars, vvars, xvars>>

NInit ==
  /\ env = CHOOSE e \in Envs : e.supported # {}
  /\ RecInit
  /\ JobInit("suspended")
  /\ WavInit
  /\ XInit
  /\ globals = Globals

NNext ==
  \/ \E buffer \in AudioBuffers : Decoded(buffer)
  \/ DecodeFailed
  \/ \E ok \in BOOLEAN : Rendered(ok)

SpecNormalize == NInit /\ [][NNext]_vars

\* ------------------------------------------------ the encoders, in bytes
\* a call of AudioService.audioBufferToWav(buffer, bitDepth)
AudioBufferToWav ==
  /\ encoder.by = None
  /\ \E buffer \in EncoderBuffers, bitDepth \in BitDepths :
       encoder' = [by |-> "audioBufferToWav", buffer |-> buffer, bitDepth |-> bitDepth,
                   out |-> audioBufferToWavBytes(buffer, bitDepth)]
  /\ UNCHANGED <<npc, audioBuffer, offlineContext, renderedBuffer, wavBlob>>
  /\ UNCHANGED <<rvars, vvars, xvars>>

\* a call of HomePage.encodeWAVToBlob(audioBuffer.getChannelData(0),
\* audioBuffer.sampleRate), as extractAudioFromVideo makes it
EncodeWAVToBlob ==
  /\ encoder.by = None
  /\ \E buffer \in EncoderBuffers :
       encoder' = [by |-> "encodeWAVToBlob",
                   buffer |-> [buffer EXCEPT !.numberOfChannels = 1,
                                             !.channelData = <<buffer.channelData[1]>>],
                   bitDepth |-> 16,
                   out |-> encodeWAVToBlob(buffer.channelData[1], buffer.sampleRate)]
  /\ UNCHANGED <<npc, audioBuffer, offlineContext, renderedBuffer, wavBlob>>
  /\ UNCHANGED <<rvars, vvars, xvars>>

ENext ==
  \/ AudioBufferToWav
  \/ EncodeWAVToBlob

SpecEncode == NInit /\ [][ENext]_vars

\* --------------------------------------------- classification of a file
\* a call of AudioService.isVideoFile(file)
IsVideoFile ==
  /\ classified.of = None
  /\ \E file \in Files :
       classified' = [of |-> "isVideoFile", file |-> file, returned |-> isVideoFile(file)]
  /\ UNCHANGED <<rvars, vvars, wvars, uvars, qvars, avars, gvars, pvars>>

\* a call of AudioService.isAudioFile(file)
IsAudioFile ==
  /\ classified.of = None
  /\ \E file \in Files :
       classified' = [of |-> "isAudioFile", file |-> file, returned |-> isAudioFile(file)]
  /\ UNCHANGED <<rvars, vvars, wvars, uvars, qvars, avars, gvars, pvars>>

CNext ==
  \/ IsVideoFile
  \/ IsAudioFile

SpecClassify == NInit /\ [][CNext]_vars

\* ------------------------------------------------ the AudioInput component
\* What onAudioSelect is called with: the source kind, the declared type of
\* the file handed over, and the stages of the engine its bytes went through
\* on the way ("normalize" is a call of convertTo16kHzMono, "validate" one
\* of validateAudioBlob).
Selected(type, mime, through) == [type |-> type, mime |-> mime, through |-> through]

\* A file is dropped on (or picked in) the dropzone, which is enabled while
\* nothing is being recorded. A file the dropzone refuses is not among
\* acceptedFiles, and onDrop returns at `if (!file) return`.
Drop(file) ==
  /\ upc = "idle"
  /\ dropped' = file
  /\ IF ~fileAccepted(file)
       THEN /\ upc' = "ignored"
            /\ UNCHANGED <<converting, onAudioSelect, toast>>
       ELSE IF isAudioFile(file)
         THEN /\ onAudioSelect' = Append(onAudioSelect, Selected("uploaded", file.type, <<>>))
              /\ toast' = Append(toast, Toast.uploaded)
              /\ upc' = "done"
              /\ UNCHANGED converting
       ELSE IF isVideoFile(file)
         THEN /\ toast' = Append(toast, Toast.extracting)
              /\ converting' = file
              /\ upc' = "extracting"
              /\ UNCHANGED onAudioSelect
       ELSE /\ toast' = Append(toast, Toast.notAllowed)
            /\ upc' = "done"
            /\ UNCHANGED <<converting, onAudioSelect>>
  /\ UNCHANGED <<classified, streamRef>>
  /\ UNCHANGED <<rvars, vvars, wvars, qvars, avars, gvars, pvars>>

\* audioService.convertVideoToAudio(file) settles (the job of SpecVideo):
\* what it resolves with came out of convertTo16kHzMono and was accepted by
\* validateAudioBlob
ConvertSettled(ok) ==
  /\ upc = "extracting"
  /\ IF ok
       THEN /\ onAudioSelect' = Append(onAudioSelect,
                 Selected("video_extracted", <<"audio", "wav">>, <<"extract", "normalize", "validate">>))
            /\ toast' = Append(toast, Toast.extracted)
       ELSE /\ toast' = Append(toast, Toast.extractFailed)
            /\ UNCHANGED onAudioSelect
  /\ upc' = "done"
  /\ UNCHANGED <<classified, dropped, converting, streamRef>>
  /\ UNCHANGED <<rvars, vvars, wvars, qvars, avars, gvars, pvars>>

\* AudioInput.startRecording: getUserMedia settles
UiStartRecording(granted) ==
  /\ upc = "idle"
  /\ IF granted
       THEN /\ streamRef' = "live"
            /\ toast' = Append(toast, Toast.recordingStarted)
            /\ upc' = "recording"
       ELSE /\ toast' = Append(toast, Toast.micDenied)
            /\ upc' = "done"
            /\ UNCHANGED streamRef
  /\ UNCHANGED <<classified, dropped, converting, onAudioSelect>>
  /\ UNCHANGED <<rvars, vvars, wvars, qvars, avars, gvars, pvars>>

\* AudioInput.stopRecording, and the events of the recorder's stop(): the
\* chunk is pushed, then mediaRecorder.onstop wraps the chunks in a Blob it
\* declares audio/wav and hands it to onAudioSelect
UiStopRecording ==
  /\ upc = "recording"
  /\ onAudioSelect' = Append(onAudioSelect, Selected("recorded", <<"audio", "wav">>, <<"record">>))
  /\ streamRef' = "stopped"
  /\ toast' = Append(toast, Toast.recordingComplete)
  /\ upc' = "done"
  /\ UNCHANGED <<classified, dropped, converting>>
  /\ UNCHANGED <<rvars, vvars, wvars, qvars, avars, gvars, pvars>>

UNext ==
  \/ \E file \in Files : Drop(file)
  \/ \E ok \in BOOLEAN : ConvertSettled(ok)
  \/ \E granted \in BOOLEAN : UiStartRecording(granted)
  \/ UiStopRecording

SpecInput == NInit /\ [][UNext]_vars

\* ------------------------------------------------- encoder negotiation
\* a call of AudioService.getBestAudioMimeType()
GetBestAudioMimeType ==
  /\ ~negotiated.called
  /\ negotiated' = [called |-> TRUE, returned |-> getBestAudioMimeType(env.supported)]
  /\ UNCHANGED listed
  /\ UNCHANGED <<rvars, vvars, wvars, cvars, uvars, avars, gvars, pvars>>

\* a call of AudioService.getSupportedAudioFormats()
GetSupportedAudioFormats ==
  /\ ~listed.called
  /\ listed' = [called |-> TRUE, returned |-> getSupportedAudioFormats(env.supported)]
  /\ UNCHANGED negotiated
  /\ UNCHANGED <<rvars, vvars, wvars, cvars, uvars, avars, gvars, pvars>>

QInit ==
  /\ env \in AnyEnvs
  /\ RecInit
  /\ JobInit("suspended")
  /\ WavInit
  /\ XInit
  /\ globals = Globals

QNext ==
  \/ GetBestAudioMimeType
  \/ GetSupportedAudioFormats

SpecNegotiate == QInit /\ [][QNext]_vars

\* ------------------------------------------------------ Asset Validator
\* An event as a handler of validateAudioBlob sees it: its name and the
\* readyState of the Audio element at that moment (0 HAVE_NOTHING .. 4
\* HAVE_ENOUGH_DATA).
Event(name, readyState) == [event |-> name, readyState |-> readyState]

\* validateAudioBlob's local cleanup(): sets the flag and revokes the URL,
\* once
ProbeCleanup ==
  /\ resolved' = TRUE
  /\ url' = IF resolved THEN url ELSE "revoked"

\* the call: the Audio element, the object URL, the three handlers, the
\* timer, and `audio.src = url`
ValidateAudioBlob ==
  /\ validation.status = "none"
  /\ validation' = [status |-> "pending", value |-> FALSE]
  /\ url' = "live"
  /\ timeout' = "armed"
  /\ UNCHANGED <<resolved, heard>>
  /\ UNCHANGED <<rvars, vvars, wvars, cvars, uvars, qvars, gvars, pvars>>

\* audio.oncanplaythrough: cleanup(); resolve(true)
OnCanPlayThrough(readyState) ==
  /\ validation.status # "none"
  /\ Len(heard) < MaxEvents
  /\ heard' = Append(heard, Event("canplaythrough", readyState))
  /\ ProbeCleanup
  /\ validation' = Resolve(validation, TRUE)
  /\ UNCHANGED timeout
  /\ UNCHANGED <<rvars, vvars, wvars, cvars, uvars, qvars, gvars, pvars>>

\* audio.onerror: cleanup(); resolve(false)
OnError(readyState) ==
  /\ validation.status # "none"
  /\ Len(heard) < MaxEvents
  /\ heard' = Append(heard, Event("error", readyState))
  /\ ProbeCleanup
  /\ validation' = Resolve(validation, FALSE)
  /\ UNCHANGED timeout
  /\ UNCHANGED <<rvars, vvars, wvars, cvars, uvars, qvars, gvars, pvars>>

\* (a loadeddata handler that does not look at the flag or the ready state)
OnLoadedDataUnguarded(readyState) ==
  /\ validation.status # "none"
  /\ Len(heard) < MaxEvents
  /\ heard' = Append(heard, Event("loadeddata", readyState))
  /\ ProbeCleanup
  /\ validation' = Resolve(validation, TRUE)
  /\ UNCHANGED timeout
  /\ UNCHANGED <<rvars, vvars, wvars, cvars, uvars, qvars, gvars, pvars>>

\* audio.onloadeddata: if (!resolved && audio.readyState >= 2) { cleanup();
\* resolve(true) }
OnLoadedData(readyState) ==
  /\ validation.status # "none"
  /\ Len(heard) < MaxEvents
  /\ heard' = Append(heard, Event("loadeddata", readyState))
  /\ IF ~resolved /\ readyState >= 2
       THEN /\ ProbeCleanup
            /\ validation' = Resolve(validation, TRUE)
       ELSE UNCHANGED <<resolved, url, validation>>
  /\ UNCHANGED timeout
  /\ UNCHANGED <<rvars, vvars, wvars, cvars, uvars, qvars, gvars, pvars>>

\* the 3000 ms timer fires: if (!resolved) { cleanup(); resolve(false) }
ProbeTimeout ==
  /\ timeout = "armed"
  /\ timeout' = "fired"
  /\ heard' = Append(heard, Event("timeout", 0))
  /\ IF ~resolved
       THEN /\ ProbeCleanup
            /\ validation' = Resolve(validation, FALSE)
       ELSE UNCHANGED <<resolved, url, validation>>
  /\ UNCHANGED <<rvars, vvars, wvars, cvars, uvars, qvars, gvars, pvars>>

ANext ==
  \/ ValidateAudioBlob
  \/ \E readyState \in 0..4 : OnCanPlayThrough(readyState)
  \/ \E readyState \in 0..4 : OnError(readyState)
  \/ \E readyState \in 0..4 : OnLoadedData(readyState)
  \/ ProbeTimeout

SpecValidate == NInit /\ [][ANext]_vars
\* a timer that is armed fires: the event loop runs its callback
SpecValidateFair == SpecValidate /\ WF_vars(ProbeTimeout)

\* ------------------------------------------------- the capability query
\* typeof X !== "undefined"
Defined(g, name) == name \in g

\* getBrowserCapabilities() in a browser with the globals g: the object
\* literal's properties in order; the last one calls getSupportedAudioFormats,
\* whose filter callback evaluates `MediaRecorder.isTypeSupported` for the
\* first entry of its list
BrowserCapabilities(g, supported) ==
  IF Len(formats) > 0 /\ ~Defined(g, "MediaRecorder")
    THEN [NoReport EXCEPT !.called = TRUE, !.threw = ReferenceError]
    ELSE [called |-> TRUE,
          threw |-> None,
          supportsMediaRecorder |-> Defined(g, "MediaRecorder"),
          supportsWebAudio |-> Defined(g, "AudioContext") \/ Defined(g, "webkitAudioContext"),
          supportedFormats |-> getSupportedAudioFormats(supported)]

\* (a query that tidies up the service before it reports)
GetBrowserCapabilitiesAndCleanup ==
  /\ report' = BrowserCapabilities(globals, env.supported)
  /\ UNCHANGED globals
  /\ tracks' = IF stream # 0 THEN [tracks EXCEPT ![stream] = "stopped"] ELSE tracks
  /\ stream' = 0
  /\ mediaRecorder' = 0
  /\ chunks' = <<>>
  /\ UNCHANGED <<env, rec, startCall, stopCall, norm>>
  /\ UNCHANGED <<vvars, wvars, cvars, uvars, qvars, avars, pvars>>

\* a call of AudioService.getBrowserCapabilities(), in a browser that has
\* MediaRecorder and AudioContext (the recorder of this service runs in it)
GetBrowserCapabilities ==
  /\ report' = BrowserCapabilities(globals, env.supported)
  /\ UNCHANGED globals
  /\ UNCHANGED <<rvars, vvars, wvars, cvars, uvars, qvars, avars, pvars>>

\* the recorder, with the query called at any moment
GNext ==
  \/ Next
  \/ GetBrowserCapabilities

SpecQuery == NInit /\ [][GNext]_vars

\* ------------------------------------------ HomePage and FeedbackForm
\* HomePage renders FeedbackForm inside `analysisResult && (... analysisId && ...)`
FormMounted == analysisResult # 0 /\ analysisId # 0

\* FeedbackForm returns its 'Thank you' panel
ShowsThankYou == FormMounted /\ (submitted \/ feedbackSubmitted)

\* A render of HomePage hands FeedbackForm a new analysisResult object
\* ({...analysisResult, id: analysisId}), so the form's effect runs and
\* resets its fields, setSubmitted(false) among them.
Rerendered == submitted' = FALSE

\* the tail of handleAudioSelect: the resets after the selection is stored.
\* The form of the previous result is unmounted with them.
ResetAnalysis ==
  /\ analysisResult' = 0
  /\ analysisId' = 0
  /\ feedbackSubmitted' = FALSE
  /\ submission' = [submission EXCEPT !.mounted = FALSE]
  /\ Rerendered

\* handleAudioSelect(file, url, type) with a file, up to its first await.
\* extracted: type === "video_extracted"
HandleAudioSelect(extracted) ==
  /\ selections < MaxSelections
  /\ selections' = selections + 1
  /\ IF extracted
       THEN /\ extraction = 0
            /\ extraction' = selections + 1
            /\ UNCHANGED <<selectedAudio, analysisResult, analysisId, feedbackSubmitted,
                           submitted, submission>>
       ELSE /\ selectedAudio' = selections + 1
            /\ ResetAnalysis
            /\ UNCHANGED extraction
  /\ UNCHANGED <<selectedModel, isAnalyzing, analysis, wavs, feedback>>
  /\ UNCHANGED <<rvars, vvars, wvars, cvars, uvars, qvars, avars, gvars>>

\* extractAudioFromVideo settles: the rest of handleAudioSelect
ExtractSettled(ok) ==
  /\ extraction # 0
  /\ extraction' = 0
  /\ IF ok
       THEN /\ selectedAudio' = extraction
            /\ ResetAnalysis
       ELSE UNCHANGED <<selectedAudio, analysisResult, analysisId, feedbackSubmitted,
                        submitted, submission>>
  /\ UNCHANGED <<selections, selectedModel, isAnalyzing, analysis, wavs, feedback>>
  /\ UNCHANGED <<rvars, vvars, wvars, cvars, uvars, qvars, avars, gvars>>

\* the Clear button: handleAudioSelect(null, "", "uploaded")
Clear ==
  /\ selectedAudio # 0
  /\ selectedAudio' = 0
  /\ ResetAnalysis
  /\ UNCHANGED <<selections, selectedModel, extraction, isAnalyzing, analysis, wavs, feedback>>
  /\ UNCHANGED <<rvars, vvars, wvars, cvars, uvars, qvars, avars, gvars>>

\* ModelSelector: onModelSelect = setSelectedModel
SetSelectedModel(model) ==
  /\ selectedModel # model
  /\ selectedModel' = model
  /\ Rerendered
  /\ UNCHANGED <<selections, selectedAudio, extraction, isAnalyzing, analysis,
                 analysisResult, analysisId, feedbackSubmitted, submission, wavs, feedback>>
  /\ UNCHANGED <<rvars, vvars, wvars, cvars, uvars, qvars, avars, gvars>>

\* the Analyze button (rendered while canAnalyze): handleAnalyze up to
\* `await apiService.detectToxicity(selectedAudio.file, ...)`
HandleAnalyze ==
  /\ selectedAudio # 0 /\ selectedModel # None /\ ~isAnalyzing
  /\ isAnalyzing' = TRUE
  /\ analysis' = [pc |-> "detect", audio |-> selectedAudio]
  /\ Rerendered
  /\ UNCHANGED <<selections, selectedAudio, selectedModel, extraction, analysisResult,
                 analysisId, feedbackSubmitted, submission, wavs, feedback>>
  /\ UNCHANGED <<rvars, vvars, wvars, cvars, uvars, qvars, avars, gvars>>

\* detectToxicity settles: setAnalysisResult and on to uploadAudio, or the
\* outer catch and finally
DetectSettled(ok) ==
  /\ analysis.pc = "detect"
  /\ IF ok
       THEN /\ analysisResult' = analysis.audio
            /\ analysis' = [analysis EXCEPT !.pc = "upload"]
            /\ UNCHANGED isAnalyzing
       ELSE /\ analysis' = NoAnalysis
            /\ isAnalyzing' = FALSE
            /\ UNCHANGED analysisResult
  /\ Rerendered
  /\ UNCHANGED <<selections, selectedAudio, selectedModel, extraction, analysisId,
                 feedbackSubmitted, submission, wavs, feedback>>
  /\ UNCHANGED <<rvars, vvars, wvars, cvars, uvars, qvars, avars, gvars>>

\* apiService.uploadAudio settles: on to the insert, or the inner catch and
\* the two finally blocks
UploadSettled(ok) ==
  /\ analysis.pc = "upload"
  /\ IF ok
       THEN /\ analysis' = [analysis EXCEPT !.pc = "insert"]
            /\ UNCHANGED <<isAnalyzing, submitted>>
       ELSE /\ analysis' = NoAnalysis
            /\ isAnalyzing' = FALSE
            /\ Rerendered
  /\ UNCHANGED <<selections, selectedAudio, selectedModel, extraction, analysisResult,
                 analysisId, feedbackSubmitted, submission, wavs, feedback>>
  /\ UNCHANGED <<rvars, vvars, wvars, cvars, uvars, qvars, avars, gvars>>

\* the insert into audio_analysis settles: setAnalysisId(data.id), or the
\* inner catch; then the two finally blocks
AnalysisInserted(ok) ==
  /\ analysis.pc = "insert"
  /\ analysisId' = IF ok THEN analysis.audio ELSE analysisId
  /\ analysis' = NoAnalysis
  /\ isAnalyzing' = FALSE
  /\ Rerendered
  /\ UNCHANGED <<selections, selectedAudio, selectedModel, extraction, analysisResult,
                 feedbackSubmitted, submission, wavs, feedback>>
  /\ UNCHANGED <<rvars, vvars, wvars, cvars, uvars, qvars, avars, gvars>>

\* FeedbackForm.handleSubmit after `await onFeedbackSubmit(...)` returned
\* normally: setSubmitted(true), on the form that submitted if it is still
\* mounted
Thanked == submitted' = submission.mounted

\* the Submit button with a feedback type (and a label) chosen: handleSubmit
\* and handleFeedbackSubmit up to `await generateStoragePath(...)`
HandleSubmit ==
  /\ FormMounted /\ ~ShowsThankYou
  /\ submission.pc = "idle"
  /\ IF analysisId = 0 \/ analysisResult = 0
       THEN /\ submitted' = TRUE
            /\ UNCHANGED submission
       ELSE /\ submission' = [pc |-> "path", analysisId |-> analysisId,
                              audio |-> selectedAudio, uploaded |-> FALSE,
                              mounted |-> TRUE]
            /\ UNCHANGED submitted
  /\ UNCHANGED <<selections, selectedAudio, selectedModel, extraction, isAnalyzing,
                 analysis, analysisResult, analysisId, feedbackSubmitted, wavs, feedback>>
  /\ UNCHANGED <<rvars, vvars, wvars, cvars, uvars, qvars, avars, gvars>>

\* generateStoragePath resolves (a listing error only changes the path):
\* uploadToBucket up to its await, or straight through it when the page had
\* no selected file, and then on to the insert
PathSettled ==
  /\ submission.pc = "path"
  /\ submission' = [submission EXCEPT !.pc = IF submission.audio = 0 THEN "insert" ELSE "bucket"]
  /\ UNCHANGED <<selections, selectedAudio, selectedModel, extraction, isAnalyzing,
                 analysis, analysisResult, analysisId, feedbackSubmitted, submitted,
                 wavs, feedback>>
  /\ UNCHANGED <<rvars, vvars, wvars, cvars, uvars, qvars, avars, gvars>>

\* the upload to the bucket settles: on to the insert, or toast 'Audio save
\* failed' and return, after which handleSubmit goes on
BucketSettled(ok) ==
  /\ submission.pc = "bucket"
  /\ IF ok
       THEN /\ wavs' = wavs \cup {submission.audio}
            /\ submission' = [submission EXCEPT !.pc = "insert", !.uploaded = TRUE]
            /\ UNCHANGED submitted
       ELSE /\ submission' = NoSubmission
            /\ Thanked
            /\ UNCHANGED wavs
  /\ UNCHANGED <<selections, selectedAudio, selectedModel, extraction, isAnalyzing,
                 analysis, analysisResult, analysisId, feedbackSubmitted, feedback>>
  /\ UNCHANGED <<rvars, vvars, wvars, cvars, uvars, qvars, avars, gvars>>

\* the insert into feedback settles: setFeedbackSubmitted(true) or the error
\* toast; handleFeedbackSubmit returns and handleSubmit goes on. On success
\* the page renders again: whether the form's reset or its setSubmitted(true)
\* comes last is the scheduler's choice.
FeedbackInserted(ok) ==
  /\ submission.pc = "insert"
  /\ submission' = NoSubmission
  /\ IF ok
       THEN /\ feedback' = feedback \cup {[analysis_id |-> submission.analysisId,
                                            uploaded |-> submission.uploaded]}
            /\ feedbackSubmitted' = TRUE
            /\ Thanked \/ Rerendered
       ELSE /\ Thanked
            /\ UNCHANGED <<feedback, feedbackSubmitted>>
  /\ UNCHANGED <<selections, selectedAudio, selectedModel, extraction, isAnalyzing,
                 analysis, analysisResult, analysisId, wavs>>
  /\ UNCHANGED <<rvars, vvars, wvars, cvars, uvars, qvars, avars, gvars>>

PNext ==
  \/ \E extracted \in BOOLEAN : HandleAudioSelect(extracted)
  \/ \E ok \in BOOLEAN : ExtractSettled(ok)
  \/ Clear
  \/ \E model \in {"asr_classification", "end_to_end"} : SetSelectedModel(model)
  \/ HandleAnalyze
  \/ \E ok \in BOOLEAN : DetectSettled(ok)
  \/ \E ok \in BOOLEAN : UploadSettled(ok)
  \/ \E ok \in BOOLEAN : AnalysisInserted(ok)
  \/ HandleSubmit
  \/ PathSettled
  \/ \E ok \in BOOLEAN : BucketSettled(ok)
  \/ \E ok \in BOOLEAN : FeedbackInserted(ok)

SpecPage == NInit /\ [][PNext]_vars

\* ------------------------------------------- the query in any browser
\* Any browser: any of the three globals defined; what isTypeSupported
\* accepts matters only where MediaRecorder is defined
KInit ==
  /\ env \in AnyEnvs
  /\ globals \in SUBSET Globals
  /\ ("MediaRecorder" \notin globals) => env.supported = {}
  /\ RecInit
  /\ JobInit("suspended")
  /\ WavInit
  /\ XInit

KNext == GetBrowserCapabilities

SpecCapability == KInit /\ [][KNext]_vars

\* ================================================================== claims

\* C1. Normalizer fallback: when decoding or the offline render fails inside
\* convertTo16kHzMono, the call resolves (it does not reject) and the value
\* it resolves with is the very input buffer: same type, same bytes.
C1_NormalizerFallback ==
  \A k \in Stops :
    norm[k].failure \in {"decode", "render"} =>
      /\ norm[k].pc = "done"
      /\ norm[k].outcome = "resolved"
      /\ norm[k].err = None
      /\ norm[k].value = norm[k].input

\* a non-empty recording whose offline render failed has been handed back
C1_Witness ==
  \E k \in Stops :
    /\ norm[k].failure = "render"
    /\ norm[k].input.parts # <<>>
    /\ norm[k].value = norm[k].input

\* the normalization run by the stop handler of recorder r has failed
NormalizationFailed(r) ==
  /\ rec[r].queue = "done"
  /\ rec[r].onstop # 0
  /\ norm[rec[r].onstop].failure # None

\* the encoded buffer of session r: its chunks, tagged with its recorder's type
OriginalBuffer(r) ==
  MkBlob(rec[r].got, IF rec[r].mime # "" THEN rec[r].mime ELSE DefaultMime)

\* C2. Recorder degrade-not-fail: a stopRecording call made on an active
\* session whose recorder has delivered its stop event, and whose
\* normalization failed (read, decode or render), has resolved with the
\* original encoded buffer: the session's chunks under the recorder's type.
C2_DegradeNotFail ==
  \A k \in Stops :
    (stopCall[k].active /\ NormalizationFailed(stopCall[k].on)) =>
      /\ stopCall[k].status = "resolved"
      /\ stopCall[k].value = OriginalBuffer(stopCall[k].on)

\* C3. Device exclusivity: at most one acquired stream is live at a time.
C3_DeviceExclusive ==
  Cardinality({s \in Sessions : tracks[s] = "live"}) <= 1

\* the recorder is Idle: no stream, no recorder, no chunk accumulated
Idle == mediaRecorder = 0 /\ stream = 0 /\ chunks = <<>>

\* C4. A startRecording call whose device acquisition was denied has been
\* rejected with the start error (which no other operation of the service
\* raises); it created no recorder, holds no stream and is not the service's
\* current session; with no granted call the recorder is Idle.
C4_DeniedIsDeviceUnavailable ==
  \A c \in Sessions :
    startCall[c].gum = "denied" =>
      /\ startCall[c].status = "rejected"
      /\ startCall[c].err = ErrStart
      /\ ErrStart \notin {ErrNoRecording, ErrInvalidState, ErrRead}
      /\ rec[c] = NoRec
      /\ tracks[c] = None
      /\ mediaRecorder # c /\ stream # c
      /\ (\A d \in Sessions : startCall[d].gum # "granted") => Idle

\* a denied call next to a session that is recording
C4_Witness ==
  \E c, d \in Sessions :
    /\ startCall[c].gum = "denied"
    /\ startCall[c].status = "rejected"
    /\ rec[d].state = "recording"

\* the job has settled: convertVideoToAudio's promise is resolved or rejected
Settled == job.status # "pending"

\* C5. Every convertVideoToAudio job eventually settles, given only that
\* its timers fire.
C5_EventuallySettles == <>Settled

\* C6. Capture is ended by the first of the ended event and the deadline
\* timer: once either has fired the recorder is no longer recording, and the
\* job requests its recorder's stop at most once, whatever their order.
C6_StopAtMostOnce ==
  /\ hist.recStops <= 1
  /\ (video.ended \/ timers.deadline = "fired") => vrec.state # "recording"
  /\ vrec.stoppedBy \in {"ended", "deadline"} => hist.recStops = 1
  /\ vrec.stoppedBy = "ended" => video.ended
  /\ vrec.stoppedBy = "deadline" => timers.deadline = "fired"

\* both the ended event and the deadline have fired on a capturing job
C6_Witness ==
  /\ video.ended
  /\ timers.deadline = "fired"
  /\ vrec.stoppedBy = "ended"
  /\ hist.recStops = 1

\* the deadline force-stopped a capture whose video never ended, and the
\* stop handler found at least one chunk
DeadlineStoppedWithData ==
  /\ ~video.ended
  /\ vrec.stoppedBy = "deadline"
  /\ vrec.queue = "done"
  /\ vchunks # <<>>

\* C7 as stated: such a job yields a non-empty result (it resolves) once its
\* stop handler is through, rather than failing.
C7_DeadlineYieldsResult ==
  (DeadlineStoppedWithData /\ handler = "done") =>
    (job.status = "resolved" /\ job.value.parts # <<>>)

\* the errors that fail a job from outside its stop handler
OutsideErrors == {ErrLoad, ErrPlayback, ErrRecorder, ErrMetaTimeout}

\* C7 as amended: the deadline pauses playback and stops the recorder; with
\* at least one chunk captured the stop handler does not fail the job as
\* empty but hands the non-empty buffer to the Normalizer; a resolved job
\* carries those chunks; and the job resolves when the Validator accepts,
\* unless an error event had already failed it.
C7_DeadlineHandsOverData ==
  /\ vrec.stoppedBy = "deadline" =>
       (vrec.state = "inactive" /\ ~video.playing /\ timers.deadline = "fired")
  /\ DeadlineStoppedWithData =>
       /\ hist.norms = 1
       /\ vnorm.input = MkBlob(vchunks, WavMime)
       /\ job.err \notin {ErrNoAudio, ErrEmptyFile}
       /\ job.status = "resolved" => (job.value.parts = vchunks /\ valid = "true")
       /\ valid = "true" => (job.status = "resolved" \/ job.err \in OutsideErrors)
       /\ valid = "false" => job.status = "rejected"

\* a deadline-stopped job whose video never ended has resolved
C7_Witness ==
  /\ DeadlineStoppedWithData
  /\ job.status = "resolved"
  /\ job.value.parts # <<>>

\* C8. Once the job has settled, the object URL is revoked, the audio
\* context is closed, the video element is removed, playback is not running
\* and the capture session is not recording.
C8_NoResourceOutlivesJob ==
  Settled =>
    /\ video.revoked
    /\ audioContext = "closed"
    /\ video.removed
    /\ ~video.playing
    /\ vrec.state # "recording"

\* C9. After the job has settled no event or timer runs teardown again,
\* starts or stops a capture session, starts playback, or runs normalization
\* or validation.
C9_SingleSettle == [][Settled => hist' = hist]_vars

\* C10. Teardown order: whenever the audio graph and the video element have
\* been released, playback has been stopped and the capture session is not
\* recording.
C10_TeardownOrder ==
  hist.cleanups > 0 => (~video.playing /\ vrec.state # "recording")

\* the failures of a video that cannot be read: the load-time error event,
\* the metadata timer, the duration check
CorruptMedia == {ErrLoad, ErrMetaTimeout, ErrNoDuration}

\* C11. A job whose loaded metadata reports a duration of zero or NaN has
\* failed with CorruptMedia, has started no capture session and no playback
\* and never gets past the duration check; a job whose 10 s metadata timer
\* fired before any loadedmetadata event has failed with CorruptMedia. The
\* timer is armed by the constructor, before any duration is known.
C11_CorruptMedia ==
  /\ (isProcessing /\ (duration.nan \/ duration.secs = 0)) =>
       /\ job.status = "rejected"
       /\ job.err \in CorruptMedia
       /\ pc = "exit"
       /\ hist.recStarts = 0 /\ hist.plays = 0
       /\ vrec.state = None /\ ~video.playing
       /\ timers.deadline = "unset"
  /\ (timers.meta = "fired" /\ ~isProcessing) =>
       (job.status = "rejected" /\ job.err \in CorruptMedia)
  /\ ~isProcessing => timers.meta # "unset"

\* the metadata timer failed the job, and the metadata that arrived after it
\* reported NaN
C11_Witness ==
  /\ timers.meta = "fired"
  /\ job.err = ErrMetaTimeout
  /\ isProcessing
  /\ duration.nan
  /\ hist.recStarts = 0

\* the failures of a capture that produced no bytes
EmptyExtraction == {ErrNoAudio, ErrEmptyFile}

\* C12 as stated: a job whose capture session has stopped with no non-empty
\* chunk has been rejected with EmptyExtraction and has run neither
\* normalization nor validation; a resolved job has captured a chunk.
C12_EmptyIsEmptyExtraction ==
  /\ (vrec.queue = "done" /\ vchunks = <<>>) =>
       /\ job.status = "rejected"
       /\ job.err \in EmptyExtraction
       /\ hist.norms = 0 /\ hist.valids = 0
  /\ job.status = "resolved" => vchunks # <<>>

\* C12 as amended: the stop handler of a capture session that stops with no
\* non-empty chunk rejects the job with EmptyExtraction and ends there,
\* running neither normalization nor validation; the job's failure is
\* EmptyExtraction unless an earlier error had already failed it; a job that
\* resolves does so with the non-empty chunks it captured.
C12_EmptyNeverSilent ==
  [][ /\ (vrec.queue = "stop" /\ vrec'.queue = "done" /\ vchunks' = <<>>) =>
           /\ job'.status = "rejected"
           /\ job.status = "pending" => job'.err \in EmptyExtraction
           /\ job.status # "pending" => job' = job
           /\ handler' = "done"
      /\ (vrec'.queue = "done" /\ vchunks' = <<>>) =>
           (hist'.norms = 0 /\ hist'.valids = 0 /\ vnorm' = NormIdle /\ valid' = "idle")
      /\ job'.status = "resolved" =>
           (vchunks' # <<>> /\ job'.value.parts = vchunks')
    ]_vars

\* a capture that stopped without a chunk has failed the job as empty
C12_Witness ==
  /\ vrec.queue = "done"
  /\ vchunks = <<>>
  /\ job.status = "rejected"
  /\ job.err = ErrNoAudio
  /\ hist.norms = 0

\* the failure of a result the Asset Validator rejects
UnplayableExtraction == {ErrNotPlayable}

\* C13. Validator gate: a resolved job has handed its captured buffer to the
\* Normalizer and the Normalizer's output to the Asset Validator, which
\* accepted it, and resolves with that output; validation starts only on a
\* Normalizer output; a job whose validator answered false is rejected with
\* UnplayableExtraction.
C13_ValidatorGate ==
  /\ job.status = "resolved" =>
       /\ hist.norms = 1 /\ hist.valids = 1
       /\ vnorm.input = MkBlob(vchunks, WavMime)
       /\ vnorm.outcome = "resolved"
       /\ valid = "true"
       /\ job.value = vnorm.value
  /\ hist.valids > 0 => (hist.norms = 1 /\ vnorm.outcome = "resolved")
  /\ valid = "false" =>
       (job.status = "rejected" /\ job.err \in UnplayableExtraction)

\* The states of the capture session recorder r stands for: Idle (not
\* started), Recording, Stopping (stopped, its stop event still to come),
\* Stopped (its stop event delivered).
SessionState(r) ==
  IF rec[r].state = "recording" THEN "Recording"
  ELSE IF rec[r].queue = "stop" THEN "Stopping"
  ELSE IF rec[r].queue = "done" THEN "Stopped"
  ELSE "Idle"

\* the stop handler of call k finalizes the chunk list in this step
Finalizes(k) == norm[k].pc = "idle" /\ norm'[k].pc # "idle"

\* finalization from Stopping, for a stop requested on an active session
FromStopping(k) ==
  \E r \in Sessions :
    /\ SessionState(r) = "Stopping"
    /\ rec[r].onstop = k
    /\ stopCall[k].on = r
    /\ stopCall[k].active

\* C14 as stated: a session's chunk is appended only while the session is
\* Recording, and the chunks are finalized only from Stopping, after stop
\* was requested on an active session.
C14_AppendOnlyWhileRecording ==
  [][ /\ \A r \in Sessions :
           rec'[r].got # rec[r].got => SessionState(r) = "Recording"
      /\ \A k \in Stops : Finalizes(k) => FromStopping(k)
    ]_vars

\* C14 as amended: a session's chunk is appended while the session is
\* Recording or, for the one final chunk its recorder delivers with the stop
\* event, while it is Stopping; never while it is Idle or Stopped, and a
\* chunk only ever goes onto the end of the list. The chunks are finalized
\* only from Stopping, by the stop event of a recorder whose stop was
\* requested while the session was active, and the session is Stopped then.
C14_SessionInvariant ==
  [][ /\ \A r \in Sessions :
           rec'[r].got # rec[r].got =>
             /\ rec'[r].got = Append(rec[r].got, NextChunk(r))
             /\ \/ SessionState(r) = "Recording"
                \/ SessionState(r) = "Stopping" /\ rec'[r].queue = "done"
      /\ Len(chunks') > Len(chunks) =>
           \E r \in Sessions :
             /\ chunks' = Append(chunks, NextChunk(r))
             /\ SessionState(r) \in {"Recording", "Stopping"}
      /\ \A k \in Stops :
           Finalizes(k) =>
             /\ FromStopping(k)
             /\ rec'[stopCall[k].on].queue = "done"
    ]_vars

\* a session was finalized with the final chunk its recorder delivered
\* after stop was requested
C14_Witness ==
  \E k \in Stops :
    /\ stopCall[k].raw # NoBlob
    /\ stopCall[k].on # 0
    /\ rec[stopCall[k].on].queue = "done"
    /\ Len(rec[stopCall[k].on].got) = 2
    /\ stopCall[k].raw.parts = rec[stopCall[k].on].got

\* C15. No captured data is lost at stop: the buffer a stop handler
\* finalizes consists of every non-empty chunk the stopped session's
\* recorder delivered up to its stop event, the final one included, each
\* once and in delivery order.
C15_NoDataLost ==
  \A k \in Stops :
    stopCall[k].raw # NoBlob =>
      stopCall[k].raw.parts = rec[stopCall[k].on].got

\* C16. A startRecording call that failed after its stream was acquired
\* (recorder construction or recorder start threw) has stopped every track
\* of that stream, and the service retains neither the stream nor the
\* recorder of that call.
C16_ReleaseOnStartError ==
  \A c \in Sessions :
    (startCall[c].status = "rejected" /\ startCall[c].gum = "granted") =>
      /\ tracks[c] = "stopped"
      /\ stream # c
      /\ mediaRecorder # c

IsWavAsset(b) == b.type = WavMime /\ b.enc = "pcm16k"

\* the failures stopRecording and convertVideoToAudio reject with
StopFailures == {ErrNoRecording, ErrInvalidState}
JobFailures ==
  {ErrNoDuration, ErrMetaTimeout, ErrNoAudio, ErrEmptyFile, ErrNotPlayable,
   ErrRecorder, ErrPlay, ErrPlayback, ErrLoad, ErrUnexpected, ErrRead}

RECURSIVE ReadUint(_)
ReadUint(bytes) ==
  IF bytes = <<>> THEN 0 ELSE bytes[1] + 256 * ReadUint(Tail(bytes))

\* the field of n bytes at byte offset `at` (from 0) of a buffer
Field(bytes, at, n) == ReadUint(SubSeq(bytes, at + 1, at + n))

\* C19. A successful normalization of a decoded source of length > 0 (any
\* rate, one or two channels) yields a header reporting 16000 Hz, 1 channel,
\* 16 bits; its frame count F is ceil(d * 16000) for d = length / rate, that
\* is F - 1 < d * 16000 <= F, and is within 1 of round(d * 16000); the data
\* size is 2 * F and the byte length 44 + 2 * F; 5 s of 44.1 kHz stereo
\* yields 44 + 2 * 80000 bytes.
C19_NormalizedLengths ==
  npc = "done" =>
    LET g == GCD(16000, audioBuffer.sampleRate)
        p == 16000 \div g
        q == audioBuffer.sampleRate \div g
        F == renderedBuffer.length
        round == (2 * audioBuffer.length * p + q) \div (2 * q)
        h == wavBlob.header
    IN /\ audioBuffer.length > 0
       /\ Len(h) = 44
       /\ Field(h, 24, 4) = 16000
       /\ Field(h, 22, 2) = 1
       /\ Field(h, 34, 2) = 16
       /\ (F - 1) * q < audioBuffer.length * p
       /\ audioBuffer.length * p <= F * q
       /\ F - round \in {-1, 0, 1}
       /\ Field(h, 40, 4) = 2 * F
       /\ wavBlob.size = 44 + 2 * F
       /\ Field(h, 4, 4) = wavBlob.size - 8
       /\ wavBlob.type = WavMime
       /\ (audioBuffer.length = 220500 /\ audioBuffer.sampleRate = 44100) =>
            wavBlob.size = 44 + 2 * 80000

\* 5 s of 44.1 kHz stereo have been normalized
C19_Witness ==
  /\ npc = "done"
  /\ audioBuffer = [length |-> 220500, sampleRate |-> 44100, numberOfChannels |-> 2]
  /\ renderedBuffer.length = 80000
  /\ wavBlob.size = 160044

\* the signed number the two bytes at byte offset `at` hold, little-endian
ReadInt16(bytes, at) ==
  LET u == Field(bytes, at, 2) IN IF u >= 32768 THEN u - 65536 ELSE u

\* the 16-bit rule for the sample n / SampleDen: clamp, scale by 32767 (not
\* negative) or 32768 (negative), as a signed 16-bit integer
Rule16(n) ==
  IF Clamp(n) >= 0 THEN Trunc(Clamp(n) * 32767, SampleDen)
  ELSE Trunc(Clamp(n) * 32768, SampleDen)

\* C20. 16-bit encoding rule: in the output of either encoder at bit depth
\* 16, the value written for every sample of every channel is the rule's:
\* the sample clamped to [-1, 1], scaled by 32767 if it is not negative and
\* by 32768 if it is, little-endian; so a sample >= 1 is written as 32767,
\* a sample <= -1 as -32768, and every written value is in [-32768, 32767].
C20_SixteenBitRule ==
  (encoder.by # None /\ encoder.bitDepth = 16) =>
    \A i \in 1..encoder.buffer.length :
      \A channel \in 1..encoder.buffer.numberOfChannels :
        LET n == encoder.buffer.channelData[channel][i]
            at == HeaderSize + 2 * ((i - 1) * encoder.buffer.numberOfChannels + (channel - 1))
            written == ReadInt16(encoder.out.bytes, at)
        IN /\ written = Rule16(n)
           /\ written >= -32768 /\ written <= 32767
           /\ n >= SampleDen => written = 32767
           /\ n <= -SampleDen => written = -32768

\* C21. Encoder header consistency: for every frame count L, channel count
\* C, sample rate R and bit depth B in {8, 16}, the output of an encoder
\* (HomePage's encodeWAVToBlob has C = 1 and B = 16) begins with 44 bytes
\* holding "RIFF", "WAVE", "fmt " and "data" at offsets 0, 8, 12 and 36,
\* RIFF size = total length - 8, fmt chunk size 16, format code 1, channels
\* C, sample rate R, byte rate R * block align, block align C * B / 8, bits
\* per sample B and data size L * block align; the total length is 44 + the
\* data size, and the write offset ends at the total length.
C21_HeaderConsistency ==
  (encoder.by # None /\ encoder.bitDepth \in {8, 16}) =>
    LET bytes == encoder.out.bytes
        L == encoder.buffer.length
        C == encoder.buffer.numberOfChannels
        R == encoder.buffer.sampleRate
        B == encoder.bitDepth
        blockAlign == C * (B \div 8)
    IN /\ Len(bytes) >= 44
       /\ SubSeq(bytes, 1, 4) = <<82, 73, 70, 70>>
       /\ SubSeq(bytes, 9, 12) = <<87, 65, 86, 69>>
       /\ SubSeq(bytes, 13, 16) = <<102, 109, 116, 32>>
       /\ SubSeq(bytes, 37, 40) = <<100, 97, 116, 97>>
       /\ Field(bytes, 4, 4) = Len(bytes) - 8
       /\ Field(bytes, 16, 4) = 16
       /\ Field(bytes, 20, 2) = 1
       /\ Field(bytes, 22, 2) = C
       /\ Field(bytes, 24, 4) = R
       /\ Field(bytes, 28, 4) = R * blockAlign
       /\ Field(bytes, 32, 2) = blockAlign
       /\ Field(bytes, 34, 2) = B
       /\ Field(bytes, 40, 4) = L * blockAlign
       /\ Len(bytes) = 44 + L * blockAlign
       /\ encoder.out.offset = Len(bytes)
       /\ encoder.out.type = WavMime

\* audioBufferToWav has encoded two frames of two channels at 8 bits
C21_Witness ==
  /\ encoder.by = "audioBufferToWav"
  /\ encoder.bitDepth = 8
  /\ encoder.buffer.numberOfChannels = 2
  /\ encoder.buffer.length = 2
  /\ Len(encoder.out.bytes) = 48

\* C22. Round-trip law: for every valid sample array (samples in [-1, 1])
\* and bit depth 16, decoding the data section of audioBufferToWav's output
\* (each little-endian 16-bit integer divided by the scale factor used,
\* 32767) reproduces each sample rounded to 16-bit precision, that is the
\* multiple of 1/32767 nearest to it, sample for sample and in interleaved
\* order (frame i, channel c at byte 44 + 2 * (i * C + c)).
C22_RoundTrip ==
  (encoder.by = "audioBufferToWav" /\ encoder.bitDepth = 16) =>
    /\ Len(encoder.out.bytes) = HeaderSize + 2 * encoder.buffer.length * encoder.buffer.numberOfChannels
    /\ \A i \in 1..encoder.buffer.length :
         \A channel \in 1..encoder.buffer.numberOfChannels :
           LET n == encoder.buffer.channelData[channel][i]
               at == HeaderSize + 2 * ((i - 1) * encoder.buffer.numberOfChannels + (channel - 1))
               decoded == ReadInt16(encoder.out.bytes, at)
               diff == decoded * SampleDen - n * 32767
           IN (n >= -SampleDen /\ n <= SampleDen) =>
                (2 * diff <= SampleDen /\ 2 * diff >= -SampleDen)

\* the extension of a file name: what follows its last dot, in lower case
\* (the empty sequence if the name has no dot)
Extension(name) ==
  IF name = <<>> THEN <<>>
  ELSE IF \E i \in 1..Len(name) : name[i] = "."
    THEN LET last == CHOOSE i \in 1..Len(name) :
                       name[i] = "." /\ \A j \in (i + 1)..Len(name) : name[j] # "."
         IN [j \in 1..(Len(name) - last) |-> ToLowerCase(name[last + j])]
    ELSE <<>>

ClipMKV == [name |-> <<"c", "l", "i", "p", ".", "M", "K", "V">>,
            type |-> <<"video", "x-matroska">>]

\* C23. Classification is an inclusive OR of two checks: isVideoFile returns
\* true exactly when the file's extension (without regard to case) is one of
\* the video extensions or its declared type is in the video allowlist,
\* either alone sufficing, and isAudioFile likewise with the audio lists;
\* clip.MKV with type video/x-matroska is a video file. A call changes
\* nothing but what it returns.
C23_InclusiveOr ==
  [][classified' # classified =>
       /\ classified'.of = "isVideoFile" =>
            /\ classified'.returned =
                 (Extension(classified'.file.name) \in videoExtensions
                    \/ classified'.file.type \in videoTypes)
            /\ classified'.file = ClipMKV => classified'.returned
       /\ classified'.of = "isAudioFile" =>
            classified'.returned =
              (Extension(classified'.file.name) \in audioExtensions
                 \/ classified'.file.type \in audioTypes)
       /\ UNCHANGED <<rvars, vvars, wvars, uvars, qvars, avars, gvars>>]_vars

\* clip.MKV, declared video/x-matroska, has been classified as a video file:
\* its type is not in the allowlist, its extension alone decided
C23_Witness ==
  /\ classified.of = "isVideoFile"
  /\ classified.file = ClipMKV
  /\ classified.file.type \notin videoTypes
  /\ classified.returned

\* the two checks of the classification, on the extension and the type
MatchesVideo(file) == Extension(file.name) \in videoExtensions \/ file.type \in videoTypes
MatchesAudio(file) == Extension(file.name) \in audioExtensions \/ file.type \in audioTypes

\* UnsupportedInputKind, as the entry point reports it
UnsupportedInputKind == Toast.notAllowed

\* C24. Dispatch follows classification for every combination of file name
\* and declared type: once the entry point has dealt with a file, a file
\* that matches a video extension or a video type has been passed to
\* convertVideoToAudio; a file that matches neither an audio nor a video
\* check has failed with UnsupportedInputKind, and onAudioSelect has not
\* been called for it.
C24_DispatchFollowsClassification ==
  dropped # NoFile =>
    /\ MatchesVideo(dropped) => converting = dropped
    /\ (~MatchesVideo(dropped) /\ ~MatchesAudio(dropped)) =>
         /\ toast = <<UnsupportedInputKind>>
         /\ onAudioSelect = <<>>

\* the extension table of the input boundary
TableAudio ==
  { <<"w", "a", "v">>, <<"m", "p", "3">>, <<"m", "4", "a">>, <<"o", "g", "g">>,
    <<"f", "l", "a", "c">>, <<"a", "a", "c">> }
TableVideo ==
  { <<"m", "p", "4">>, <<"a", "v", "i">>, <<"m", "o", "v">>, <<"m", "k", "v">>,
    <<"w", "e", "b", "m">>, <<"3", "g", "p">>, <<"w", "m", "v">>, <<"f", "l", "v">>,
    <<"m", "4", "v">> }

\* C25. The accepted extension table is fixed: once the entry point has
\* dealt with a file whose declared type is empty or not allowlisted, the
\* file has been accepted as audio (handed on as an upload) exactly when its
\* extension is one of wav, mp3, m4a, ogg, flac, aac, and as video (passed
\* to the extractor) exactly when it is one of mp4, avi, mov, mkv, webm,
\* 3gp, wmv, flv, m4v; with any other extension it is neither.
C25_ExtensionTable ==
  (dropped # NoFile /\ dropped.type \notin (audioTypes \cup videoTypes)) =>
    /\ (\E i \in 1..Len(onAudioSelect) : onAudioSelect[i].type = "uploaded")
         <=> Extension(dropped.name) \in TableAudio
    /\ converting = dropped <=> Extension(dropped.name) \in TableVideo

\* C26. Data flows strictly downward through the Normalizer for every source
\* kind: every asset the entry point hands to its caller (an uploaded audio
\* file, a device recording, audio extracted from a video) has first been
\* passed through the PCM Normalizer.
C26_ThroughNormalizer ==
  \A i \in 1..Len(onAudioSelect) :
    \E j \in 1..Len(onAudioSelect[i].through) : onAudioSelect[i].through[j] = "normalize"

\* the strict priority list: webm/opus > webm/vorbis > webm > mp4/AAC-LC >
\* mp4 > ogg/opus > ogg/vorbis > wav
Priority ==
  << "audio/webm;codecs=opus", "audio/webm;codecs=vorbis", "audio/webm",
     "audio/mp4;codecs=mp4a.40.2", "audio/mp4", "audio/ogg;codecs=opus",
     "audio/ogg;codecs=vorbis", "audio/wav" >>

\* the place of a type in the priority list (0 if it is not on it)
Rank(type) ==
  IF \E i \in 1..Len(Priority) : Priority[i] = type
    THEN CHOOSE i \in 1..Len(Priority) : Priority[i] = type
    ELSE 0

\* C27. Encoder negotiation: for every set of supported types,
\* getBestAudioMimeType returns the supported type that comes first in the
\* priority list, and none only when no listed type is supported;
\* getSupportedAudioFormats returns exactly the supported listed types, each
\* once, in the order of the list, so its first element is the negotiated
\* type (and it is empty exactly when none is negotiated).
C27_Negotiation ==
  LET listedSupported == {Priority[i] : i \in 1..Len(Priority)} \cap env.supported
  IN /\ negotiated.called =>
          IF listedSupported = {} THEN negotiated.returned = None
          ELSE /\ negotiated.returned \in listedSupported
               /\ \A t \in listedSupported : Rank(negotiated.returned) <= Rank(t)
     /\ listed.called =>
          /\ {listed.returned[k] : k \in 1..Len(listed.returned)} = listedSupported
          /\ \A k, l \in 1..Len(listed.returned) :
               k < l => Rank(listed.returned[k]) < Rank(listed.returned[l])
     /\ (negotiated.called /\ listed.called) =>
          IF listed.returned = <<>> THEN negotiated.returned = None
          ELSE listed.returned[1] = negotiated.returned

\* both were called in a browser that supports neither WebM type with a
\* codec but three lower types: audio/webm is negotiated and listed first
C27_Witness ==
  /\ env.supported = {"audio/webm", "audio/ogg;codecs=opus", "audio/wav", "audio/x-matroska"}
  /\ negotiated.called /\ listed.called
  /\ negotiated.returned = "audio/webm"
  /\ listed.returned = <<"audio/webm", "audio/ogg;codecs=opus", "audio/wav">>

\* an event that decides a validation: can-play-through, error, the timeout,
\* or data-loaded with a ready state of HAVE_CURRENT_DATA or more
Decides(e) ==
  \/ e.event \in {"canplaythrough", "error", "timeout"}
  \/ e.event = "loadeddata" /\ e.readyState >= 2

\* the value a deciding event resolves the promise with
ValueOf(e) == e.event \in {"canplaythrough", "loadeddata"}

\* C28. validateAudioBlob always resolves and never rejects or hangs: while
\* no deciding event has come the promise is pending; from the first
\* deciding event on it is resolved, with true if that event was a
\* can-play-through or a data-loaded with sufficient ready state and with
\* false if it was the error event or the 3 s timeout; no later event
\* changes the result; and every call is resolved in the end.
C28_ValidatorSettles ==
  /\ [](validation.status # "none" =>
          /\ validation.status \in {"pending", "resolved"}
          /\ IF \E i \in 1..Len(heard) : Decides(heard[i])
               THEN LET first == CHOOSE i \in 1..Len(heard) :
                                   Decides(heard[i]) /\ \A j \in 1..(i - 1) : ~Decides(heard[j])
                    IN /\ validation.status = "resolved"
                       /\ validation.value = ValueOf(heard[first])
               ELSE validation.status = "pending")
  /\ [][validation.status = "resolved" => validation' = validation]_vars
  /\ (validation.status = "pending" ~> validation.status = "resolved")

\* a validation was decided by a data-loaded event, and an error event and
\* the timeout that came later did not change it
C28_Witness ==
  /\ Len(heard) = 4
  /\ heard[1] = Event("loadeddata", 1)
  /\ heard[2] = Event("loadeddata", 2)
  /\ heard[3].event = "error"
  /\ heard[4].event = "timeout"
  /\ validation = [status |-> "resolved", value |-> TRUE]

\* C29. The capability query is a pure read: a call of getBrowserCapabilities
\* in any recorder state (Idle, Recording, Stopping, normalizing) leaves the
\* service's stream, recorder and chunk list, the recorders, the tracks of
\* every stream and every pending call as they were, so it acquires no
\* device; and once a report has been returned, a later call in the same
\* browser returns the same report.
C29_QueryIsPureRead ==
  [][/\ report' # report =>
          UNCHANGED <<env, mediaRecorder, stream, chunks, rec, tracks, startCall, stopCall, norm>>
     /\ report.called => report' = report]_vars

\* a report listing the browser's three formats has been returned, while a
\* session is Recording with a chunk captured and its stream live and an
\* earlier session is still Stopping
C29_Witness ==
  /\ report.called
  /\ report.supportedFormats = <<"audio/webm;codecs=opus", "audio/webm", "audio/ogg;codecs=opus">>
  /\ mediaRecorder # 0 /\ rec[mediaRecorder].state = "recording"
  /\ chunks # <<>>
  /\ stream # 0 /\ tracks[stream] = "live"
  /\ \E r \in Sessions : rec[r].queue = "stop"

\* the codec tag of session r: the type its recorder reports, or the default
SessionMime(r) == IF rec[r].mime # "" THEN rec[r].mime ELSE DefaultMime

\* C30. Session isolation under interleaving: for every interleaving of
\* startRecording and stopRecording calls with recorder events, the buffer a
\* stop handler finalizes consists of exactly the chunks recorded by the
\* session that call stopped and is tagged with that session's codec; the
\* chunk list of the current session holds no chunk of another session; and
\* no session that is still Recording has had its device released by
\* another session's stop handler.
C30_SessionIsolation ==
  /\ \A k \in Stops :
       stopCall[k].raw # NoBlob =>
         LET r == stopCall[k].on
         IN /\ Len(stopCall[k].raw.parts) = Len(rec[r].got)
            /\ \A i \in 1..Len(stopCall[k].raw.parts) :
                 stopCall[k].raw.parts[i] = [rec |-> r, n |-> i]
            /\ stopCall[k].raw.type = SessionMime(r)
  /\ mediaRecorder # 0 =>
       \A i \in 1..Len(chunks) : chunks[i].rec = mediaRecorder
  /\ \A c \in Sessions :
       rec[c].state = "recording" => tracks[rec[c].stream] = "live"

\* ---------------------------------------------------------------------
\* the recorder a stop call called stop() on has delivered its stop event
StopDelivered(k) == stopCall[k].on # 0 /\ rec[stopCall[k].on].queue = "done"

\* C31: every stopRecording call settles once the recorder it stopped has
\* delivered its stop event, whatever other calls were made in between; in
\* particular a stop issued while an earlier one still waits does not keep
\* the earlier one from settling.
C31_StopSettles ==
  \A k \in Stops :
    (stopCall[k].status = "pending" /\ StopDelivered(k))
      ~> (stopCall[k].status # "pending")

\* ---------------------------------------------------------------------
\* No session in progress: every recorder ever constructed has had its stop
\* handled by a stopRecording handler (which tore the session down); a
\* start that has not constructed a recorder (getUserMedia still pending or
\* denied, or the constructor threw) leaves this true.
NoSessionInProgress ==
  \A r \in Sessions :
    rec[r].state # None => (rec[r].queue = "done" /\ rec[r].onstop # 0)

\* C32: a stopRecording call made with no session in progress rejects with
\* 'No recording in progress' and changes neither the fields of the service
\* (stream, recorder, chunk list) nor any recorder or track (no stop is
\* requested) nor any normalization (none is started).
C32_StopWithoutSession ==
  [][\A k \in Stops :
       (NoSessionInProgress /\ stopCall[k].status = "unused"
          /\ stopCall'[k].status # "unused")
         => /\ stopCall'[k].status = "rejected"
            /\ stopCall'[k].err = ErrNoRecording
            /\ stopCall'[k].on = 0
            /\ UNCHANGED <<mediaRecorder, stream, chunks, rec, tracks, norm>>]_vars

\* a stop call was rejected this way after an earlier stop call had resolved
\* with its recording and torn the session down
C32_Witness ==
  \E j, k \in Stops :
    /\ j < k
    /\ stopCall[j].status = "resolved"
    /\ stopCall[k].status = "rejected"
    /\ stopCall[k].err = ErrNoRecording
    /\ NoSessionInProgress
    /\ Idle

\* ---------------------------------------------------------------------
\* C33: within one extraction job the audio graph and the capture session
\* are built at most once (one recorder started, one play() call); a
\* loadedmetadata event delivered once the first one has been handled
\* changes nothing of the job, and neither does the metadata timer when it
\* fires after that.
C33_GraphBuiltOnce ==
  /\ [](hist.recStarts <= 1 /\ hist.plays <= 1)
  /\ [][(isProcessing /\ video'.metas # video.metas)
          => /\ video' = [video EXCEPT !.metas = video'.metas]
             /\ UNCHANGED <<audioContext, isProcessing, pc, duration, vrec, vchunks,
                            timers, job, handler, vnorm, valid, hist>>]_vars
  /\ [][(isProcessing /\ timers'.meta # timers.meta)
          => /\ timers' = [timers EXCEPT !.meta = timers'.meta]
             /\ UNCHANGED <<video, audioContext, isProcessing, pc, duration, vrec,
                            vchunks, job, handler, vnorm, valid, hist>>]_vars

\* loadedmetadata was delivered twice and the metadata timer has fired, on a
\* job that built its graph and started its capture
C33_Witness ==
  /\ video.metas = 2
  /\ timers.meta = "fired"
  /\ hist.recStarts = 1
  /\ hist.plays = 1
  /\ job.err # ErrMetaTimeout

\* ---------------------------------------------------------------------
\* C34: getBrowserCapabilities is total: in every browser, with or without
\* MediaRecorder and with or without an AudioContext constructor, a call
\* returns a report and does not throw; supportsMediaRecorder tells whether
\* MediaRecorder is defined, and where it is not, supportedFormats is empty.
C34_QueryIsTotal ==
  report.called =>
    /\ report.threw = None
    /\ report.supportsMediaRecorder = ("MediaRecorder" \in globals)
    /\ report.supportsWebAudio = (globals \cap {"AudioContext", "webkitAudioContext"} # {})
    /\ ~report.supportsMediaRecorder => report.supportedFormats = <<>>

\* ---------------------------------------------------------------------
\* C35: the analysis result the page holds belongs to the selected audio: a
\* result, and the analysis row named by analysisId, are of the file that is
\* selected now, and with no file selected both are null.
C35_ResultOfSelectedAudio ==
  /\ analysisResult # 0 => analysisResult = selectedAudio
  /\ analysisId # 0 => analysisId = selectedAudio
  /\ selectedAudio = 0 => (analysisResult = 0 /\ analysisId = 0)

\* C36: the feedback form shows its submitted state only if a feedback row
\* for the analysis on display was persisted, and every feedback row was
\* inserted after its audio had been uploaded to the bucket.
C36_ThankYouOnlyIfPersisted ==
  /\ ShowsThankYou => \E row \in feedback : row.analysis_id = analysisId
  /\ \A row \in feedback : row.uploaded

\* ---------------------------------------------------------------------
\* the bytes audioBufferToWav has written for frame i, channel c (both from
\* 0) if the data is interleaved frame by frame with B-bit samples
SampleAt(bytes, i, c, C, B) ==
  SubSeq(bytes, 44 + (i * C + c) * (B \div 8) + 1, 44 + (i * C + c + 1) * (B \div 8))

====
